---- MODULE Spec2Model ----
(***************************************************************************)
(* State-machine model of the HyperHomo frontend reconciliation core       *)
(* (src/frontend/script.js): wallet session, network guard, USDC allowance *)
(* management, the deposit flow and its ledger synchronisation, together   *)
(* with the vault contract (src/unnamed/part_001) and the off-chain ledger *)
(* service it talks to.                                                    *)
(*                                                                         *)
(* JavaScript runs one callback at a time: every action below is the code  *)
(* that runs between two awaits of one async function (a "resume"), with   *)
(* everything it calls synchronously.  The outcome of the awaited request  *)
(* is chosen when the awaiting code resumes; the arguments of the request  *)
(* (the account it names) are those evaluated when it was issued.          *)
(***************************************************************************)
EXTENDS Integers, Sequences, FiniteSets, TLC

\* ---------------------------------------------------------------- bounds
\* Token amounts are counted in base units; the model scales the token's
\* 10^6 base units per USDC down to UnitsPerUsdc.
UnitsPerUsdc == 2
\* Largest amount typed into the deposit form, in base units.
MaxDepositUnits == 3
\* Number of deposit form submissions, connect clicks and wallet
\* notifications (account changes; also the disconnect, approve and
\* navigation clicks) in one run.
MaxDeposits == 1
MaxConnects == 1
MaxWalletEvents == 2
\* Largest on-chain allowance among the inputs of the allowance check.
MaxAllowance == 4
\* Number of investment form submissions in one run.
MaxInvests == 1
\* Number of calls made to the vault contract in one run, and the largest
\* value a balance of the vault can hold (the width of its integers).
MaxVaultCalls == 3
UintMax == 4

\* ------------------------------------------------------ program constants
\* ethers.parseUnits('1', decimals): "At least 1 USDC"
MinAllowanceUsdc == 1
\* ethers.parseUnits('1000000', decimals): "effectively unlimited"
MaxApproveUsdc == 1000000

Null == "null"
Accounts == {"X", "Y"}
AccountOrNull == Accounts \cup {Null}
Procs == {"dep", "conn", "evt", "inv", "apr", "nav"}

minAllowance == MinAllowanceUsdc * UnitsPerUsdc
maxAmount == MaxApproveUsdc * UnitsPerUsdc
\* Amounts typed into the form: nothing, the smallest and the largest.
Amounts == {0, 1, MaxDepositUnits}
\* Allowances found at start: one base unit, or exactly one USDC.
InitAllowances == {1, UnitsPerUsdc}

VARIABLES
    \* --- script.js globals (lines 14-24)
    provider, signer, currentAccount, isWalletConnected,
    usdcContract, vaultContract, isUsdcApproved,
    \* --- wallet event subscription (lines 740-741)
    listening,
    \* --- DOM: deposit button and the #deposit-status element
    btnDisabled, statusClasses, statusText, statusLast,
    \* --- async functions in flight: position, pending request argument,
    \*     continuation of the caller
    pc, arg, ret,
    \* --- locals of the deposit invocation in flight
    dAmount, dSite, dErr,
    \* --- wallet, chain and ledger (the environment)
    walletSel, walletChainOk, walletKnowsChain,
    allowance, balances, tx,
    ledgerHas, ledgerBal,
    \* --- history of the current deposit invocation and of the session
    dLog, dStart, dFinal, getOk, createdAfterGet, afterDisconnect,
    nDeposits, nConnects, nEvents,
    \* --- the wallet extension is installed (window.ethereum)
    hasEthereum,
    \* --- history of the current connectWallet call: its wallet requests and
    \*     what checkAndSwitchNetwork returned; a chain change nobody heard
    cLog, cNet, missedChain,
    \* --- the investment modal: its form listener, status element, the
    \*     /invest requests sent, and the number of submissions
    invOpen, invStatus, invLog, nInvests,
    \* --- history of the current approveUsdc call (the statuses it set and
    \*     how it ended) and the create_account requests issued so far
    aStat, created,
    \* --- DOM of the two-button variant: its approve button
    approveDisabled,
    \* --- the last call made to the vault contract and its outcome, and
    \*     the tokens the vault holds
    vLast, vHeld,
    \* --- the strategy listing shown, the card chosen in it and the value
    \*     of the hidden field #investment-strategy-id
    invForm

appVars == <<provider, signer, currentAccount, isWalletConnected,
             usdcContract, vaultContract, isUsdcApproved, listening,
             btnDisabled, statusClasses, statusText, statusLast,
             pc, arg, ret, dAmount, dSite, dErr,
             dLog, dStart, dFinal, getOk, createdAfterGet, afterDisconnect,
             cLog, cNet, missedChain, invOpen, invStatus, invLog, nInvests,
             aStat, created, vLast, vHeld, invForm, approveDisabled>>
walletVars == <<walletSel, walletChainOk, walletKnowsChain, hasEthereum>>
chainVars == <<allowance, balances, tx>>
ledgerVars == <<ledgerHas, ledgerBal>>
countVars == <<nDeposits, nConnects, nEvents>>
vars == <<appVars, walletVars, chainVars, ledgerVars, countVars>>

\* The page's state as one record, so that the synchronous code of a resume
\* is a composition of functions on it.
App ==
    [provider |-> provider, signer |-> signer, currentAccount |-> currentAccount,
     isWalletConnected |-> isWalletConnected, usdcContract |-> usdcContract,
     vaultContract |-> vaultContract, isUsdcApproved |-> isUsdcApproved,
     listening |-> listening, btnDisabled |-> btnDisabled,
     statusClasses |-> statusClasses, statusText |-> statusText,
     statusLast |-> statusLast, pc |-> pc, arg |-> arg, ret |-> ret,
     dAmount |-> dAmount, dSite |-> dSite, dErr |-> dErr, dLog |-> dLog,
     dStart |-> dStart, dFinal |-> dFinal, getOk |-> getOk,
     createdAfterGet |-> createdAfterGet, afterDisconnect |-> afterDisconnect,
     cLog |-> cLog, cNet |-> cNet, missedChain |-> missedChain,
     invOpen |-> invOpen, invStatus |-> invStatus, invLog |-> invLog,
     nInvests |-> nInvests, aStat |-> aStat, created |-> created,
     vLast |-> vLast, vHeld |-> vHeld, invForm |-> invForm,
     approveDisabled |-> approveDisabled]

Commit(st) ==
    /\ provider' = st.provider
    /\ signer' = st.signer
    /\ currentAccount' = st.currentAccount
    /\ isWalletConnected' = st.isWalletConnected
    /\ usdcContract' = st.usdcContract
    /\ vaultContract' = st.vaultContract
    /\ isUsdcApproved' = st.isUsdcApproved
    /\ listening' = st.listening
    /\ btnDisabled' = st.btnDisabled
    /\ statusClasses' = st.statusClasses
    /\ statusText' = st.statusText
    /\ statusLast' = st.statusLast
    /\ pc' = st.pc
    /\ arg' = st.arg
    /\ ret' = st.ret
    /\ dAmount' = st.dAmount
    /\ dSite' = st.dSite
    /\ dErr' = st.dErr
    /\ dLog' = st.dLog
    /\ dStart' = st.dStart
    /\ dFinal' = st.dFinal
    /\ getOk' = st.getOk
    /\ createdAfterGet' = st.createdAfterGet
    /\ afterDisconnect' = st.afterDisconnect
    /\ cLog' = st.cLog
    /\ cNet' = st.cNet
    /\ missedChain' = st.missedChain
    /\ invOpen' = st.invOpen
    /\ invStatus' = st.invStatus
    /\ invLog' = st.invLog
    /\ nInvests' = st.nInvests
    /\ aStat' = st.aStat
    /\ created' = st.created
    /\ vLast' = st.vLast
    /\ vHeld' = st.vHeld
    /\ invForm' = st.invForm
    /\ approveDisabled' = st.approveDisabled

Msg(t, m) == [t |-> t, m |-> m]
NoMsg == Msg("", "")
\* The #investment-status element: its text and its status class
InvStatus(message, status) == [msg |-> message, kind |-> status]
NoInvStatus == InvStatus(NoMsg, "")
Ev(e, a, n) == [ev |-> e, acct |-> a, n |-> n]
Logged(st, e, a, n) == [st EXCEPT !.dLog = Append(@, Ev(e, a, n))]

NoStart == [acct |-> Null, amount |-> 0, allow |-> 0, connected |-> FALSE,
            afterDisconnect |-> FALSE,
            balances |-> [a \in Accounts |-> 0],
            ledgerBal |-> [a \in Accounts |-> 0]]
NoFinal == [outcome |-> "none", status |-> "", text |-> NoMsg, err |-> ""]
NoTx == [state |-> "none", from |-> Null, amount |-> 0]
\* A call of a vault function: its number, sender, argument and outcome
VaultCall(n, fn, sender, amount, result) ==
    [n |-> n, fn |-> fn, sender |-> sender, amount |-> amount, result |-> result]
NoCall == VaultCall(0, "none", Null, 0, "none")

\* ------------------------------------------------------------- DOM status
StatusKinds == {"pending", "success", "error", "warning"}

\* updateDepositStatus(message, status)
updateDepositStatus(st, message, status) ==
    [st EXCEPT !.statusClasses = (@ \ {"pending", "success", "error"}) \cup {status},
               !.statusText = message,
               !.statusLast = status]

\* The status element written directly by connectWallet and getAccountInfo.
writeStatusElement(st, message, status) ==
    [st EXCEPT !.statusClasses = (@ \ StatusKinds) \cup {status},
               !.statusText = message,
               !.statusLast = status]

\* --------------------------------------------------------- wallet session
\* updateWalletUI(connected)
updateWalletUI(st, connected) == [st EXCEPT !.isWalletConnected = connected]

\* A disconnect that forgets to drop the signer.
disconnectWalletKeepsSigner(st) ==
    updateWalletUI([st EXCEPT !.currentAccount = Null,
                              !.isWalletConnected = FALSE,
                              !.provider = Null,
                              !.afterDisconnect = TRUE], FALSE)

\* disconnectWallet(): the contract bindings are left as they are.
disconnectWallet(st) ==
    updateWalletUI([st EXCEPT !.currentAccount = Null,
                              !.isWalletConnected = FALSE,
                              !.provider = Null,
                              !.signer = Null,
                              !.afterDisconnect = TRUE], FALSE)

\* initializeContracts(): both contracts are bound to the current signer.
initializeContracts(st) ==
    IF st.provider = Null \/ st.signer = Null
    THEN st
    ELSE [st EXCEPT !.usdcContract = st.signer, !.vaultContract = st.signer]

\* ----------------------------------------------------------- the ledger
\* GET /get_account/:address
LedgerGetOk(a) == a \in ledgerHas
\* POST /deposit answers with a text containing "not found" when the
\* account is missing.
LedgerNotFound(a) == a \in Accounts /\ a \notin ledgerHas

\* A get_account request for address a succeeded.
NoteGetOk(st, a) == [st EXCEPT !.getOk = @ \cup {a}]
\* A create_account request for address a is issued.
NoteCreate(st, a) ==
    IF a \in st.getOk THEN [st EXCEPT !.createdAfterGet = @ \cup {a}] ELSE st

\* signer.signMessage(message) for the message that embeds address a, and
\* the absence of a signature in a request body
Signature(a) == [signed |-> TRUE, msg |-> a]
NoSignature == [signed |-> FALSE, msg |-> Null]
\* The body of a POST /create_account request
CreateRequest(st, a, signature) ==
    [NoteCreate(st, a) EXCEPT !.created = @ \cup {[address |-> a, signature |-> signature]}]

\* -------------------------------------------------- continuation plumbing
RECURSIVE Cont(_, _)

\* A comparison that asks for more than the minimum.
AllowanceOkStrict(a) == a > minAllowance

\* checkUsdcAllowance(), the comparison of lines 337-358
AllowanceOk(a) == a >= minAllowance

\* Reads that only feed the display (ETH, USDC and vault balances, PnL,
\* strategy performance) change nothing below: the code that follows such a
\* read runs in the same step as the code before it.

\* updateBalances(), lines 570-593: up to GET /get_account/<currentAccount>
updateBalances(st, p) ==
    IF ~st.isWalletConnected \/ st.currentAccount = Null
    THEN Cont(st, p)
    ELSE [st EXCEPT !.pc[p] = "ub_get", !.arg[p] = st.currentAccount]

\* updateBalances(), lines 610-616: checkUsdcAllowance() up to its read
UbAllowance(st, p) ==
    IF st.usdcContract = Null \/ st.currentAccount = Null
    THEN Cont(st, p)
    ELSE [st EXCEPT !.pc[p] = "ub_allow", !.arg[p] = st.currentAccount]

\* loadUserTrades() up to its GET /get_account/<currentAccount>; without an
\* account it returns and getAccountInfo() goes on to updateBalances()
loadUserTrades(st, p) ==
    IF st.currentAccount = Null
    THEN updateBalances(st, p)
    ELSE [st EXCEPT !.pc[p] = "lt_get", !.arg[p] = st.currentAccount]

\* getAccountInfo() up to its GET /get_account/<currentAccount>
getAccountInfo(st, p) ==
    IF ~st.isWalletConnected \/ st.currentAccount = Null
    THEN Cont(st, p)
    ELSE IF st.provider = Null
         THEN Cont(st, p)   \* provider.getBalance throws, caught at line 936
         ELSE [st EXCEPT !.pc[p] = "gi_get", !.arg[p] = st.currentAccount]

\* A handler without the finally block of lines 1611-1614.
HandlerEndKeepsDisabled(st, outcome) ==
    [st EXCEPT !.pc["dep"] = "idle", !.arg["dep"] = Null,
               !.dAmount = 0, !.dSite = "H", !.dErr = "",
               !.dFinal = [outcome |-> outcome, status |-> st.statusLast,
                           text |-> st.statusText, err |-> st.dErr]]

\* A finally block that also forgets the active account.
HandlerEndForgetsAccount(st, outcome) ==
    [st EXCEPT !.btnDisabled = FALSE,
               !.currentAccount = Null,
               !.pc["dep"] = "idle", !.arg["dep"] = Null,
               !.dAmount = 0, !.dSite = "H", !.dErr = "",
               !.dFinal = [outcome |-> outcome, status |-> st.statusLast,
                           text |-> st.statusText, err |-> st.dErr]]

\* The end of the deposit form handler: its finally block.
HandlerEnd(st, outcome) ==
    [st EXCEPT !.btnDisabled = FALSE,
               !.pc["dep"] = "idle", !.arg["dep"] = Null,
               !.dAmount = 0, !.dSite = "H", !.dErr = "",
               !.dFinal = [outcome |-> outcome, status |-> st.statusLast,
                           text |-> st.statusText, err |-> st.dErr]]

\* What runs when the awaited call of process p returns.
Cont(st, p) ==
    CASE st.ret[p] = "c_info" ->
            \* connectWallet after getAccountInfo(): updateBalances()
            updateBalances([st EXCEPT !.ret[p] = "c_done"], p)
      [] st.ret[p] = "c_done" ->
            \* connectWallet registers its listeners and returns true
            [st EXCEPT !.listening = TRUE, !.pc[p] = "idle", !.arg[p] = Null,
                       !.ret[p] = "none"]
      [] st.ret[p] = "d_done" ->
            \* depositUsdc returns true; the handler clears the input
            HandlerEnd([st EXCEPT !.ret[p] = "none"], "ok")
      [] OTHER ->
            \* handleAccountsChanged ends
            [st EXCEPT !.pc[p] = "idle", !.arg[p] = Null, !.ret[p] = "none"]

\* The strategies page before any listing is shown (lines 1081-1086)
NoForm == [listing |-> <<>>, card |-> 0, value |-> <<>>]

\* ------------------------------------------------------------------ Init
\* The session globals before any connect (lines 14-24)
InitSession ==
    /\ provider = Null /\ signer = Null /\ currentAccount = Null
    /\ isWalletConnected = FALSE
    /\ usdcContract = Null /\ vaultContract = Null
    /\ isUsdcApproved = FALSE

\* The page, the wallet, the ledger and the histories at page load
InitPage ==
    /\ listening = FALSE
    /\ btnDisabled = FALSE
    /\ approveDisabled = FALSE
    /\ statusClasses = {} /\ statusText = NoMsg /\ statusLast = ""
    /\ pc = [p \in Procs |-> "idle"]
    /\ arg = [p \in Procs |-> Null]
    /\ ret = [p \in Procs |-> "none"]
    /\ dAmount = 0 /\ dSite = "H" /\ dErr = ""
    /\ walletSel = "X"
    /\ walletChainOk \in BOOLEAN
    /\ walletKnowsChain \in BOOLEAN
    /\ walletChainOk => walletKnowsChain
    /\ balances = [a \in Accounts |-> 0]
    /\ tx = [k \in {"approve", "deposit"} |-> NoTx]
    /\ ledgerHas = {}
    /\ ledgerBal = [a \in Accounts |-> 0]
    /\ dLog = <<>> /\ dStart = NoStart /\ dFinal = NoFinal
    /\ getOk = {} /\ createdAfterGet = {} /\ afterDisconnect = FALSE
    /\ nDeposits = 0 /\ nConnects = 0 /\ nEvents = 0
    /\ hasEthereum \in BOOLEAN
    /\ cLog = <<>> /\ cNet = "none" /\ missedChain = FALSE
    /\ invOpen = FALSE /\ invStatus = NoInvStatus /\ invLog = <<>> /\ nInvests = 0
    /\ aStat = <<>> /\ created = {} /\ vLast = NoCall
    /\ vHeld = 0 /\ invForm = NoForm

Init ==
    /\ InitSession
    /\ InitPage
    /\ \E v \in InitAllowances : allowance = [a \in Accounts |-> IF a = "X" THEN v ELSE 0]

\* ------------------------------------------- account-info refresh (steps)
\* getAccountInfo: GET /get_account/<currentAccount> returned; the
\* notification of lines 916-929, then loadUserTrades()
GiGet(p) ==
    /\ pc[p] = "gi_get"
    /\ \/ /\ LedgerGetOk(arg[p])
          /\ Commit(loadUserTrades(
                 writeStatusElement(NoteGetOk(App, arg[p]),
                                    Msg("Using real account data from FHE server", ""),
                                    "success"), p))
       \/ Commit(loadUserTrades(App, p))
       \/ Commit(Cont(App, p))          \* a read threw: caught at line 936
    /\ UNCHANGED <<walletVars, chainVars, ledgerVars, countVars>>

\* loadUserTrades: GET /get_account/<currentAccount> returned; then
\* updateBalances()
LtGet(p) ==
    /\ pc[p] = "lt_get"
    /\ \/ /\ LedgerGetOk(arg[p])
          /\ Commit(updateBalances(NoteGetOk(App, arg[p]), p))
       \/ Commit(updateBalances(App, p))
    /\ UNCHANGED <<walletVars, chainVars, ledgerVars, countVars>>

\* updateBalances: GET /get_account/<currentAccount> returned
UbGet(p) ==
    /\ pc[p] = "ub_get"
    /\ \/ /\ LedgerGetOk(arg[p])
          /\ Commit(UbAllowance(NoteGetOk(App, arg[p]), p))
       \/ Commit(UbAllowance(App, p))
    /\ UNCHANGED <<walletVars, chainVars, ledgerVars, countVars>>

\* updateBalances: checkUsdcAllowance() returned
UbAllow(p) ==
    /\ pc[p] = "ub_allow"
    /\ \/ Commit(Cont(App, p))                      \* the read failed
       \/ Commit(Cont([App EXCEPT !.isUsdcApproved = AllowanceOk(allowance[arg[p]])], p))
    /\ UNCHANGED <<walletVars, chainVars, ledgerVars, countVars>>

Refresh(p) == GiGet(p) \/ LtGet(p) \/ UbGet(p) \/ UbAllow(p)

\* ----------------------------------------------------------- connectWallet
\* A wallet request or answer of the connectWallet call in flight.
CLogged(st, e) == [st EXCEPT !.cLog = Append(@, e)]

\* connectWallet returns false (alert for a refused network, or the catch
\* of lines 748-752)
ConnectFailed(st) ==
    [st EXCEPT !.pc["conn"] = "idle", !.arg["conn"] = Null, !.ret["conn"] = "none"]

\* connectWallet after checkAndSwitchNetwork() returned true: lines 660-664,
\* up to the eth_requestAccounts request
ConnectProceed(st) ==
    [CLogged(st, "accounts") EXCEPT !.provider = "set", !.pc["conn"] = "c_accounts"]

\* connectWallet from line 734 on
ConnectInfo(st) == getAccountInfo([st EXCEPT !.ret["conn"] = "c_info"], "conn")

\* A connectWallet that does not look at what checkAndSwitchNetwork returned.
AfterNetworkIgnored(st, networkSwitched) == ConnectProceed(st)

\* connectWallet, lines 653-658: the result of checkAndSwitchNetwork()
AfterNetwork(st, networkSwitched) ==
    IF ~networkSwitched THEN ConnectFailed(st) ELSE ConnectProceed(st)

\* checkAndSwitchNetwork returns to connectWallet
NetReturn(st, result) ==
    AfterNetwork([st EXCEPT !.cNet = IF result THEN "true" ELSE "false"], result)

\* checkAndSwitchNetwork() up to its eth_chainId request (lines 253-258)
checkAndSwitchNetwork(st) ==
    IF ~hasEthereum
    THEN NetReturn(st, FALSE)
    ELSE [CLogged(st, "chainId") EXCEPT !.pc["conn"] = "n_chain"]

\* connectWallet() up to its first await (lines 650-654); without a wallet
\* it alerts and returns false (lines 744-746)
connectWallet(st) ==
    IF hasEthereum THEN checkAndSwitchNetwork(st) ELSE ConnectFailed(st)

\* Click on the connect button (or the reconnect at page load).
ConnectClick ==
    /\ pc["conn"] = "idle"
    /\ nConnects < MaxConnects
    /\ nConnects' = nConnects + 1
    /\ Commit(connectWallet([App EXCEPT !.cLog = <<>>, !.cNet = "none"]))
    /\ UNCHANGED <<walletVars, chainVars, ledgerVars, nDeposits, nEvents>>

\* checkAndSwitchNetwork: eth_chainId returned
NetChainId ==
    /\ pc["conn"] = "n_chain"
    /\ \/ Commit(NetReturn(CLogged(App, "chainIdFailed"), FALSE))
       \/ /\ walletChainOk
          /\ Commit(NetReturn(App, TRUE))
       \/ /\ ~walletChainOk
          /\ Commit([CLogged(App, "switch") EXCEPT !.pc["conn"] = "n_switch"])
    /\ UNCHANGED <<walletVars, chainVars, ledgerVars, countVars>>

\* A catch that takes every switch error for "chain unknown".
SwitchFailedAlwaysAdds(st, unknown) ==
    [CLogged(CLogged(st, "switchDeclined"), "add") EXCEPT !.pc["conn"] = "n_add"]

\* checkAndSwitchNetwork, lines 270-292: wallet_switchEthereumChain threw,
\* with code 4902 (chain unknown to the wallet) or another error
SwitchFailed(st, unknown) ==
    IF unknown
    THEN [CLogged(CLogged(st, "switchUnknown"), "add") EXCEPT !.pc["conn"] = "n_add"]
    ELSE NetReturn(CLogged(st, "switchDeclined"), FALSE)

\* checkAndSwitchNetwork: wallet_switchEthereumChain returned
NetSwitch ==
    /\ pc["conn"] = "n_switch"
    /\ \/ /\ walletKnowsChain
          /\ walletChainOk' = TRUE
          /\ UNCHANGED <<walletSel, walletKnowsChain, hasEthereum>>
          /\ Commit(NetReturn(CLogged(App, "switchOk"), TRUE))
       \/ /\ ~walletKnowsChain             \* error code 4902
          /\ UNCHANGED walletVars
          /\ Commit(SwitchFailed(App, TRUE))
       \/ /\ UNCHANGED walletVars          \* the user declined
          /\ Commit(SwitchFailed(App, FALSE))
    /\ UNCHANGED <<chainVars, ledgerVars, countVars>>

\* checkAndSwitchNetwork: wallet_addEthereumChain returned
NetAdd ==
    /\ pc["conn"] = "n_add"
    /\ \/ /\ walletKnowsChain' = TRUE
          /\ walletChainOk' \in BOOLEAN    \* the wallet may or may not switch
          /\ UNCHANGED <<walletSel, hasEthereum>>
          /\ Commit(NetReturn(CLogged(App, "addOk"), TRUE))
       \/ /\ UNCHANGED walletVars
          /\ Commit(NetReturn(CLogged(App, "addDeclined"), FALSE))
    /\ UNCHANGED <<chainVars, ledgerVars, countVars>>

\* connectWallet: eth_requestAccounts returned
ConnAccounts ==
    /\ pc["conn"] = "c_accounts"
    /\ \/ Commit(ConnectFailed([App EXCEPT !.cLog = <<>>]))
       \/ /\ walletSel # Null
          /\ IF provider = Null
             THEN Commit(ConnectFailed([App EXCEPT !.cLog = <<>>]))   \* getSigner: TypeError
             ELSE Commit([App EXCEPT !.pc["conn"] = "c_signer", !.arg["conn"] = walletSel,
                                    !.cLog = <<>>])
    /\ UNCHANGED <<walletVars, chainVars, ledgerVars, countVars>>

\* connectWallet: provider.getSigner() returned; lines 667-683
ConnSigner ==
    /\ pc["conn"] = "c_signer"
    /\ \/ Commit(ConnectFailed(App))
       \/ /\ walletSel # Null
          /\ LET s1 == [App EXCEPT !.signer = walletSel, !.currentAccount = arg["conn"],
                                   !.afterDisconnect = FALSE]
                 s2 == updateWalletUI(initializeContracts(s1), TRUE)
             IN Commit([s2 EXCEPT !.pc["conn"] = "c_get", !.arg["conn"] = s2.currentAccount])
    /\ UNCHANGED <<walletVars, chainVars, ledgerVars, countVars>>

\* connectWallet: GET /get_account/<currentAccount> returned; lines 685-699
ConnGet ==
    /\ pc["conn"] = "c_get"
    /\ \/ /\ LedgerGetOk(arg["conn"])
          /\ Commit(ConnectInfo(NoteGetOk(App, arg["conn"])))
       \/ Commit(ConnectInfo(App))                       \* fetch threw
       \/ LET s1 == writeStatusElement(App, Msg("Please sign the message to create your account...", ""), "pending")
          IN IF ~isWalletConnected \/ signer = Null
             THEN Commit(ConnectInfo(s1))                \* signMessage threw
             ELSE Commit([s1 EXCEPT !.pc["conn"] = "c_sign", !.arg["conn"] = currentAccount])
    /\ UNCHANGED <<walletVars, chainVars, ledgerVars, countVars>>

\* connectWallet: signer.signMessage returned; POST /create_account issued
ConnSign ==
    /\ pc["conn"] = "c_sign"
    /\ \/ Commit(ConnectInfo(App))                       \* the user declined
       \/ Commit(CreateRequest([App EXCEPT !.pc["conn"] = "c_create",
                                          !.arg["conn"] = currentAccount],
                                currentAccount, Signature(arg["conn"])))
    /\ UNCHANGED <<walletVars, chainVars, ledgerVars, countVars>>

\* The ledger's create_account: create-if-absent.
LedgerCreate(a) ==
    /\ a \in Accounts
    /\ ledgerHas' = ledgerHas \cup {a}
    /\ ledgerBal' = IF a \in ledgerHas THEN ledgerBal ELSE [ledgerBal EXCEPT ![a] = 0]

\* connectWallet: POST /create_account returned; lines 714-727
ConnCreate ==
    /\ pc["conn"] = "c_create"
    /\ \/ /\ LedgerCreate(arg["conn"])
          /\ Commit(ConnectInfo([App EXCEPT !.statusText = Msg("Account created successfully!", ""),
                                           !.statusClasses = (@ \ {"pending"}) \cup {"success"},
                                           !.statusLast = "success"]))
       \/ /\ UNCHANGED ledgerVars
          /\ Commit(ConnectInfo(App))
    /\ UNCHANGED <<walletVars, chainVars, countVars>>

Connect ==
    \/ ConnectClick \/ NetChainId \/ NetSwitch \/ NetAdd
    \/ ConnAccounts \/ ConnSigner \/ ConnGet \/ ConnSign \/ ConnCreate

\* ------------------------------------------------------------ notifications
\* A handler that refreshes on every non-empty notification, without
\* comparing the account with the active one.
handleAccountsChangedNoCompare(st, a) ==
    IF a = Null
    THEN disconnectWallet(st)
    ELSE getAccountInfo(updateWalletUI([st EXCEPT !.currentAccount = a,
                                                  !.ret["evt"] = "e_done"], TRUE), "evt")

\* handleAccountsChanged(accounts), accounts = [a] or [] (a = Null)
handleAccountsChanged(st, a) ==
    IF a = Null
    THEN disconnectWallet(st)
    ELSE IF a # st.currentAccount
         THEN getAccountInfo(updateWalletUI([st EXCEPT !.currentAccount = a,
                                                       !.ret["evt"] = "e_done"], TRUE), "evt")
         ELSE st

\* The wallet's selected account changes; the handler runs when registered.
WalletAccountsChanged(a) ==
    /\ hasEthereum
    /\ nEvents < MaxWalletEvents
    /\ a # walletSel
    /\ pc["evt"] = "idle"
    /\ walletSel' = a
    /\ nEvents' = nEvents + 1
    /\ IF listening THEN Commit(handleAccountsChanged(App, a)) ELSE UNCHANGED appVars
    /\ UNCHANGED <<walletChainOk, walletKnowsChain, hasEthereum, chainVars, ledgerVars,
                   nDeposits, nConnects>>

\* Click on the disconnect button.
DisconnectClick ==
    /\ nEvents < MaxWalletEvents
    /\ nEvents' = nEvents + 1
    /\ Commit(disconnectWallet(App))
    /\ UNCHANGED <<walletVars, chainVars, ledgerVars, nDeposits, nConnects>>

\* ------------------------------------------------------ the deposit flow
\* checkUsdcAllowance() returned false at its guard (line 330), no read made
CheckSkipped(st) == Logged(st, "check", st.currentAccount, 0)

Thrown(st, e, err) == [Logged(st, e, st.arg["dep"], 0) EXCEPT !.dErr = err]

\* An outer catch that shows a fixed text instead of error.message.
HandlerCatchGeneric(st, err) ==
    HandlerEnd(updateDepositStatus(st, Msg("Error: ", "Deposit failed"), "error"), "thrown")

\* The outer catch of the deposit form handler (lines 1608-1610) and its
\* finally block.
HandlerCatch(st, err) ==
    HandlerEnd(updateDepositStatus(st, Msg("Error: ", err), "error"), "thrown")

\* The catch of depositUsdc (lines 543-547): the error is rethrown.
DepositCatch(st, err) ==
    HandlerCatch(updateDepositStatus(st, Msg("Error depositing USDC: ", err), "error"), err)

\* A handler whose catch of approveUsdc() shows nothing.
HandlerApproveSilent(st, err) ==
    HandlerEnd([st EXCEPT !.btnDisabled = FALSE], "approveFailed")

\* approveUsdc() threw, to the handler (its catch of lines 1596-1602) or
\* into depositUsdc's try block.
\* A status written by approveUsdc, and the end of its call
ApproveStatus(st, message, status) ==
    [updateDepositStatus(st, message, status) EXCEPT !.aStat = Append(@, status)]
ApproveEnded(st, how) == [st EXCEPT !.aStat = Append(@, how)]

HandlerApproveFailed(st, err) ==
    HandlerEnd([updateDepositStatus(st, Msg("Error approving USDC: ", err), "error")
                    EXCEPT !.btnDisabled = FALSE], "approveFailed")

ApproveThrow(st, err) ==
    IF st.dSite = "H" THEN HandlerApproveFailed(st, err) ELSE DepositCatch(st, err)

\* A catch of approveUsdc that rethrows without writing the status.
ApproveCatchSilent(st, err) == ApproveThrow(ApproveEnded(st, "threw"), err)

\* The catch of approveUsdc (lines 415-419).
ApproveCatch(st, err) ==
    ApproveThrow(ApproveEnded(ApproveStatus(st, Msg("Error approving USDC: ", err), "error"),
                              "threw"), err)

\* approveUsdc() up to its first await (lines 367-381)
approveUsdc(st, site) ==
    LET s1 == [st EXCEPT !.dSite = site, !.aStat = <<>>]
    IN IF s1.usdcContract = Null \/ s1.currentAccount = Null
       THEN ApproveThrow(ApproveEnded(Thrown(s1, "approveThrow",
                                "USDC contract not initialized or wallet not connected"),
                                "threwAtGuard"),
                         "USDC contract not initialized or wallet not connected")
       ELSE [ApproveStatus(s1, Msg("Approving USDC...", ""), "pending")
                EXCEPT !.pc["dep"] = "a_pre", !.arg["dep"] = s1.currentAccount]

\* depositUsdc from line 441 to the await of line 450
DepositProceed(st) ==
    [updateDepositStatus(st, Msg("Depositing USDC...", ""), "pending")
        EXCEPT !.pc["dep"] = "d_gas"]

\* depositUsdc after the second checkUsdcAllowance() (lines 436-438)
DepositAfterVerify(st, verifyApproval) ==
    IF ~verifyApproval
    THEN DepositCatch(Thrown(st, "verifyFailed", "USDC approval failed. Please try again."),
                      "USDC approval failed. Please try again.")
    ELSE DepositProceed(st)

\* depositUsdc after its approveUsdc() returned: checkUsdcAllowance() again
DepositAfterApprove(st) ==
    IF st.usdcContract = Null \/ st.currentAccount = Null
    THEN DepositAfterVerify(CheckSkipped(st), FALSE)
    ELSE [st EXCEPT !.pc["dep"] = "d_verify", !.arg["dep"] = st.currentAccount]

\* depositUsdc after its first checkUsdcAllowance() (lines 431-439)
DepositAfterCheck(st, isApproved) ==
    IF ~isApproved THEN approveUsdc(st, "D") ELSE DepositProceed(st)

\* depositUsdc(amount) up to its first await (lines 424-430)
depositUsdc(st) ==
    IF st.vaultContract = Null \/ st.currentAccount = Null
    THEN HandlerCatch(Thrown(st, "depositThrow",
                             "Vault contract not initialized or wallet not connected"),
                      "Vault contract not initialized or wallet not connected")
    ELSE IF st.usdcContract = Null
         THEN DepositAfterCheck(CheckSkipped(st), FALSE)
         ELSE [st EXCEPT !.pc["dep"] = "d_allow", !.arg["dep"] = st.currentAccount]

\* The handler after its checkUsdcAllowance() (lines 1592-1606)
HandlerAfterCheck(st, isApproved) ==
    IF ~isApproved
    THEN approveUsdc(updateDepositStatus(st, Msg("Approving USDC...", ""), "pending"), "H")
    ELSE depositUsdc(st)

\* approveUsdc returned true (lines 411-414), back in its caller
ApproveReturned(st) ==
    LET s1 == ApproveEnded(ApproveStatus([st EXCEPT !.isUsdcApproved = TRUE],
                                         Msg("USDC approved successfully!", ""), "success"),
                           "returned")
    IN IF s1.dSite = "H" THEN depositUsdc(s1) ELSE DepositAfterApprove(s1)

\* checkUsdcAllowance() after its read: v is the allowance, -1 a failed read
checkUsdcAllowance(st, v) ==
    IF v < 0 THEN st ELSE [st EXCEPT !.isUsdcApproved = AllowanceOk(v)]

CheckResult(v) == v >= 0 /\ AllowanceOk(v)

\* The values an allowance read for account a may return.
ReadValues(a) == IF a \in Accounts THEN {-1, allowance[a]} ELSE {-1}

\* A depositUsdc that returns after the success status, without refresh.
DepositFinishNoRefresh(st) ==
    Cont([updateDepositStatus(st, Msg("USDC deposited successfully!", ""), "success")
             EXCEPT !.ret["dep"] = "d_done"], "dep")

\* depositUsdc from line 536 on: success status, then updateBalances()
DepositFinish(st) ==
    updateBalances([updateDepositStatus(st, Msg("USDC deposited successfully!", ""), "success")
                       EXCEPT !.ret["dep"] = "d_done"], "dep")

\* A ledger synchronisation whose failure leaves depositUsdc as an error.
FheFailedThrows(st) ==
    DepositCatch(Thrown(st, "ledgerFail", "FHE server error"), "FHE server error")

\* The catch of the ledger synchronisation (lines 529-534)
FheFailed(st) ==
    DepositFinish(updateDepositStatus(Logged(st, "ledgerFail", st.arg["dep"], 0),
        Msg("Deposit successful on blockchain, but FHE server update failed. Some features may be limited.", ""),
        "warning"))

\* A handler that leaves the deposit button enabled while it runs.
HandlerStartEnabled(st, amount) == [st EXCEPT !.dAmount = amount]

\* The deposit form handler past its two checks (lines 1582-1586): the
\* deposit button is disabled
HandlerStart(st, amount) == [st EXCEPT !.dAmount = amount, !.btnDisabled = TRUE]

\* Submission of the deposit form with the amount typed (lines 1566-1589)
DepositSubmit(amount) ==
    /\ pc["dep"] = "idle"
    /\ ~btnDisabled
    /\ nDeposits < MaxDeposits
    /\ nDeposits' = nDeposits + 1
    /\ LET s0 == [App EXCEPT !.dLog = <<>>, !.dErr = "", !.aStat = <<>>,
                             !.dFinal = NoFinal,
                             !.dStart = [acct |-> currentAccount, amount |-> amount,
                                         allow |-> IF currentAccount \in Accounts
                                                   THEN allowance[currentAccount] ELSE 0,
                                         connected |-> isWalletConnected,
                                         afterDisconnect |-> afterDisconnect,
                                         balances |-> balances,
                                         ledgerBal |-> ledgerBal]]
           s1 == HandlerStart(s0, amount)
       IN IF ~isWalletConnected
          THEN Commit([s0 EXCEPT !.dFinal = [outcome |-> "notConnected",
                                            status |-> statusLast, text |-> statusText,
                                            err |-> ""]])
          ELSE IF amount <= 0
               THEN Commit([s0 EXCEPT !.dFinal = [outcome |-> "invalid",
                                                 status |-> statusLast, text |-> statusText,
                                                 err |-> ""]])
               ELSE IF usdcContract = Null \/ currentAccount = Null
                    THEN Commit(HandlerAfterCheck(CheckSkipped(s1), FALSE))
                    ELSE Commit([s1 EXCEPT !.pc["dep"] = "h_allow",
                                          !.arg["dep"] = currentAccount])
    /\ UNCHANGED <<walletVars, chainVars, ledgerVars, nConnects, nEvents>>

\* One of the three checkUsdcAllowance() calls of the invocation returned.
CheckReturned(st, ok) ==
    CASE st.pc["dep"] = "h_allow" -> HandlerAfterCheck(st, ok)
      [] st.pc["dep"] = "d_allow" -> DepositAfterCheck(st, ok)
      [] OTHER -> DepositAfterVerify(st, ok)

DepAllowance ==
    /\ pc["dep"] \in {"h_allow", "d_allow", "d_verify"}
    /\ \E v \in ReadValues(arg["dep"]) :
          Commit(CheckReturned(checkUsdcAllowance(Logged(App, "check", arg["dep"], IF CheckResult(v) THEN 1 ELSE 0), v),
                               CheckResult(v)))
    /\ UNCHANGED <<walletVars, chainVars, ledgerVars, countVars>>

\* approveUsdc: the allowance read of line 381 returned
ApprovePre ==
    /\ pc["dep"] = "a_pre"
    /\ \/ Commit(ApproveCatch(Thrown(App, "approveThrow", "call failed"), "call failed"))
       \/ Commit([App EXCEPT !.pc["dep"] = "a_gas"])
    /\ UNCHANGED <<walletVars, chainVars, ledgerVars, countVars>>

\* approveUsdc: estimateGas returned (its failure is ignored); approve() is
\* sent to the wallet
ApproveGas ==
    /\ pc["dep"] = "a_gas"
    /\ Commit([Logged(App, "approveReq", usdcContract, 0) EXCEPT !.pc["dep"] = "a_send"])
    /\ UNCHANGED <<walletVars, chainVars, ledgerVars, countVars>>

\* approveUsdc: usdcContract.approve() returned
ApproveSend ==
    /\ pc["dep"] = "a_send"
    /\ \/ /\ Commit(ApproveCatch(Thrown(App, "approveTxFail", "user rejected"), "user rejected"))
          /\ UNCHANGED tx
       \/ /\ usdcContract # Null
          /\ tx' = [tx EXCEPT !["approve"] = [state |-> "pending", from |-> usdcContract,
                                              amount |-> maxAmount]]
          /\ Commit([ApproveStatus(Logged(App, "approveTx", usdcContract, 0),
                                   Msg("Waiting for approval transaction...", ""), "pending")
                        EXCEPT !.pc["dep"] = "a_wait"])
    /\ UNCHANGED <<walletVars, allowance, balances, ledgerVars, countVars>>

\* A wait that returns as soon as the transaction is sent.
TxSettledNoWait(k) == tx[k].state # "none"

\* tx.wait() returns once the transaction is mined or reverted.
TxSettled(k) == tx[k].state \in {"ok", "reverted"}

ClearTx(k) == IF tx[k].state = "pending" THEN tx ELSE [tx EXCEPT ![k] = NoTx]

\* approveUsdc: tx.wait() returned; the allowance read of line 407
ApproveWait ==
    /\ pc["dep"] = "a_wait"
    /\ TxSettled("approve")
    /\ tx' = ClearTx("approve")
    /\ IF tx["approve"].state = "reverted"
       THEN Commit(ApproveCatch(Thrown(App, "approveTxFail", "transaction reverted"),
                                "transaction reverted"))
       ELSE Commit([Logged(App, "approveFinal", tx["approve"].from, 0)
                       EXCEPT !.pc["dep"] = "a_post", !.arg["dep"] = currentAccount])
    /\ UNCHANGED <<walletVars, allowance, balances, ledgerVars, countVars>>

\* approveUsdc: the allowance read of line 407 returned
ApprovePost ==
    /\ pc["dep"] = "a_post"
    /\ \/ Commit(ApproveCatch(Thrown(App, "approveThrow", "call failed"), "call failed"))
       \/ /\ arg["dep"] \in Accounts
          /\ Commit(ApproveReturned(App))
    /\ UNCHANGED <<walletVars, chainVars, ledgerVars, countVars>>

\* depositUsdc: estimateGas returned (its failure is ignored); deposit() is
\* sent to the wallet
DepositGas ==
    /\ pc["dep"] = "d_gas"
    /\ Commit([Logged(App, "depositReq", vaultContract,
                      IF vaultContract \in Accounts THEN allowance[vaultContract] ELSE 0)
                  EXCEPT !.pc["dep"] = "d_send"])
    /\ UNCHANGED <<walletVars, chainVars, ledgerVars, countVars>>

\* depositUsdc: vaultContract.deposit() returned
DepositSend ==
    /\ pc["dep"] = "d_send"
    /\ \/ /\ Commit(DepositCatch(Thrown(App, "depositTxFail", "user rejected"), "user rejected"))
          /\ UNCHANGED tx
       \/ /\ vaultContract # Null
          /\ tx' = [tx EXCEPT !["deposit"] = [state |-> "pending", from |-> vaultContract,
                                              amount |-> dAmount]]
          /\ Commit([updateDepositStatus(Logged(Logged(App, "depositBy", currentAccount, dAmount),
                                                "depositTx", vaultContract, dAmount),
                                         Msg("Waiting for deposit transaction...", ""), "pending")
                        EXCEPT !.pc["dep"] = "d_wait"])
    /\ UNCHANGED <<walletVars, allowance, balances, ledgerVars, countVars>>

\* depositUsdc: tx.wait() returned; POST /deposit is sent (lines 471-484)
DepositWait ==
    /\ pc["dep"] = "d_wait"
    /\ TxSettled("deposit")
    /\ tx' = ClearTx("deposit")
    /\ IF tx["deposit"].state = "reverted"
       THEN Commit(DepositCatch(Thrown(App, "depositTxFail", "transaction reverted"),
                                "transaction reverted"))
       ELSE Commit([updateDepositStatus(
                        Logged(Logged(App, "depositFinal", tx["deposit"].from, dAmount),
                               "ledgerDeposit", currentAccount, dAmount),
                        Msg("Updating FHE server...", ""), "pending")
                       EXCEPT !.pc["dep"] = "l_dep", !.arg["dep"] = currentAccount])
    /\ UNCHANGED <<walletVars, allowance, balances, ledgerVars, countVars>>

\* The ledger's deposit on an existing account.
LedgerDeposit(a, amount) ==
    /\ a \in ledgerHas
    /\ ledgerBal' = [ledgerBal EXCEPT ![a] = @ + amount]
    /\ UNCHANGED ledgerHas

\* errorText.includes('not found') on the ledger's answer
IsNotFound(a) == LedgerNotFound(a)

\* depositUsdc: POST /deposit returned (lines 486-526)
LedgerDep ==
    /\ pc["dep"] = "l_dep"
    /\ \/ /\ LedgerDeposit(arg["dep"], dAmount)
          /\ Commit(DepositFinish(Logged(App, "ledgerOk", arg["dep"], dAmount)))
       \/ /\ IsNotFound(arg["dep"])
          /\ UNCHANGED ledgerVars
          /\ Commit(CreateRequest([Logged(Logged(App, "notFound", arg["dep"], 0),
                                          "createAccount", currentAccount, 0)
                                      EXCEPT !.pc["dep"] = "l_create",
                                             !.arg["dep"] = currentAccount],
                                   currentAccount, NoSignature))
       \/ /\ UNCHANGED ledgerVars
          /\ Commit(FheFailed(App))
    /\ UNCHANGED <<walletVars, chainVars, countVars>>

\* A retry that does not look at the answer of POST /create_account.
AfterCreateAlwaysRetry(st, ok) ==
    [Logged(st, "ledgerRetry", st.currentAccount, st.dAmount)
        EXCEPT !.pc["dep"] = "l_retry", !.arg["dep"] = st.currentAccount]

\* A handler that repeats a refused POST /create_account once.
AfterCreateRepeatsCreate(st, ok) ==
    IF ok
    THEN [Logged(Logged(st, "createOk", st.arg["dep"], 0),
                 "ledgerRetry", st.currentAccount, st.dAmount)
             EXCEPT !.pc["dep"] = "l_retry", !.arg["dep"] = st.currentAccount]
    ELSE IF Cardinality({i \in DOMAIN st.dLog : st.dLog[i].ev = "createAccount"}) < 2
         THEN [Logged(st, "createAccount", st.currentAccount, 0)
                  EXCEPT !.pc["dep"] = "l_create", !.arg["dep"] = st.currentAccount]
         ELSE FheFailed(st)

\* depositUsdc after POST /create_account answered (lines 504-522): the
\* deposit is retried only when the account was created
AfterCreate(st, ok) ==
    IF ok
    THEN [Logged(Logged(st, "createOk", st.arg["dep"], 0),
                 "ledgerRetry", st.currentAccount, st.dAmount)
             EXCEPT !.pc["dep"] = "l_retry", !.arg["dep"] = st.currentAccount]
    ELSE FheFailed(st)

\* depositUsdc: POST /create_account returned
LedgerCreateReturned ==
    /\ pc["dep"] = "l_create"
    /\ \/ /\ LedgerCreate(arg["dep"])
          /\ Commit(AfterCreate(App, TRUE))
       \/ /\ UNCHANGED ledgerVars
          /\ Commit(AfterCreate(App, FALSE))
    /\ UNCHANGED <<walletVars, chainVars, countVars>>

\* depositUsdc: the retried POST /deposit returned (lines 517-519)
LedgerRetry ==
    /\ pc["dep"] = "l_retry"
    /\ \/ /\ LedgerDeposit(arg["dep"], dAmount)
          /\ Commit(DepositFinish(Logged(App, "ledgerOk", arg["dep"], dAmount)))
       \/ /\ UNCHANGED ledgerVars
          /\ Commit(FheFailed(App))
    /\ UNCHANGED <<walletVars, chainVars, countVars>>

Deposit ==
    \/ \E amount \in Amounts : DepositSubmit(amount)
    \/ DepAllowance \/ ApprovePre \/ ApproveGas \/ ApproveSend \/ ApproveWait
    \/ ApprovePost \/ DepositGas \/ DepositSend \/ DepositWait
    \/ LedgerDep \/ LedgerCreateReturned \/ LedgerRetry

\* ------------------------------------------------------------ the chain
\* USDC approve(spender, amount) mined for the sender
TokenApprove(from, amount) ==
    /\ allowance' = [allowance EXCEPT ![from] = amount]
    /\ UNCHANGED balances

\* A deposit that credits the sender without moving any token.
VaultDepositUnchecked(from, amount) ==
    /\ amount > 0
    /\ balances' = [balances EXCEPT ![from] = @ + amount]
    /\ UNCHANGED allowance

\* SimpleUSDCVault.deposit(amount) mined for the sender: transferFrom needs
\* the allowance, then balances[msg.sender] += amount
VaultDeposit(from, amount) ==
    /\ amount > 0
    /\ allowance[from] >= amount
    /\ allowance' = [allowance EXCEPT ![from] = @ - amount]
    /\ balances' = [balances EXCEPT ![from] = @ + amount]

\* A pending transaction is mined: it takes effect, or it reverts.
MineTx(k) ==
    /\ tx[k].state = "pending"
    /\ \/ /\ IF k = "approve"
             THEN TokenApprove(tx[k].from, tx[k].amount)
             ELSE VaultDeposit(tx[k].from, tx[k].amount)
          /\ tx' = [tx EXCEPT ![k].state = "ok"]
       \/ /\ tx' = [tx EXCEPT ![k].state = "reverted"]
          /\ UNCHANGED <<allowance, balances>>
    /\ UNCHANGED <<appVars, walletVars, ledgerVars, countVars>>

Next ==
    \/ Connect
    \/ Deposit
    \/ \E p \in Procs : Refresh(p)
    \/ \E a \in AccountOrNull : WalletAccountsChanged(a)
    \/ DisconnectClick
    \/ \E k \in {"approve", "deposit"} : MineTx(k)

Spec == Init /\ [][Next]_vars

\* ------------------------------------------------- properties of a deposit
\* The requests of the invocation in flight (or of the last one) are dLog.
Count(e) == Cardinality({i \in DOMAIN dLog : dLog[i].ev = e})
Has(e) == \E i \in DOMAIN dLog : dLog[i].ev = e
LedgerRequests == {"ledgerDeposit", "createAccount", "ledgerRetry"}
NoLedgerRequest == \A i \in DOMAIN dLog : dLog[i].ev \notin LedgerRequests
Started == dStart.connected /\ dStart.amount > 0

\* C1: when the owner's allowance is already at least A before deposit(A)
\* is called, no approval transaction is issued.
C1_NoApprovalWhenAllowanceCoversAmount ==
    (Started /\ dStart.allow >= dStart.amount) => ~Has("approveTx")

\* C2: when the allowance is below A before deposit(A), exactly one approval
\* transaction precedes exactly one deposit transaction.
C2_OneApprovalBeforeOneDeposit ==
    (Started /\ dStart.allow < dStart.amount /\ Has("depositTx"))
        => /\ Count("approveTx") = 1
           /\ Count("depositTx") = 1
           /\ \A i, j \in DOMAIN dLog :
                 (dLog[i].ev = "approveTx" /\ dLog[j].ev = "depositTx") => i < j

\* C3: a deposit transaction for amount A is submitted only if the sender's
\* allowance to the vault is at least A at the moment of submission.
C3_DepositSubmittedOnlyWithAllowance ==
    tx["deposit"].state = "pending"
        => allowance[tx["deposit"].from] >= tx["deposit"].amount

\* C4: if the approval fails, the invocation ends with an Error status, and
\* neither a deposit transaction nor a ledger request is made.
ApprovalFailed == Has("approveTxFail") \/ Has("approveThrow")

C4_ApprovalFailureStops ==
    ApprovalFailed
        => /\ pc["dep"] = "idle"
           /\ dFinal.status = "error"
           /\ ~Has("depositReq") /\ ~Has("depositTx")
           /\ NoLedgerRequest

C4_Witness ==
    /\ Has("approveTx") /\ Has("approveTxFail")
    /\ dFinal.outcome = "approveFailed"
    /\ dFinal.status = "error"

\* C5: if the on-chain deposit fails, the invocation ends with an Error
\* status that carries the underlying message, no ledger request is made,
\* and the vault balances and the ledger balances are what they were when
\* the invocation started.
C5_DepositFailureLeavesNoTrace ==
    Has("depositTxFail")
        => /\ pc["dep"] = "idle"
           /\ dFinal.status = "error"
           /\ dFinal.err # ""
           /\ dFinal.text = Msg("Error: ", dFinal.err)
           /\ NoLedgerRequest
           /\ balances = dStart.balances
           /\ ledgerBal = dStart.ledgerBal

C5_Witness ==
    /\ Has("depositTx") /\ Has("depositTxFail")
    /\ dFinal.err = "transaction reverted"
    /\ dFinal.status = "error"

\* C6 as stated: when the first ledger deposit reports "not found", exactly
\* one createAccount(address, 0) is followed by exactly one retried deposit.
C6_AlwaysOneRetry ==
    (Has("notFound") /\ pc["dep"] \notin {"l_create"})
        => Count("createAccount") = 1 /\ Count("ledgerRetry") = 1

\* C6: when the first ledger deposit reports "not found", exactly one
\* createAccount with balance 0 is issued after it; the deposit is retried
\* exactly once when that createAccount succeeded and not at all when it
\* failed; neither is ever issued more than once.
C6_OneCreateThenRetryIfCreated ==
    /\ Count("createAccount") = Count("notFound")
    /\ Count("ledgerRetry") = Count("createOk")
    /\ Count("notFound") <= 1 /\ Count("ledgerRetry") <= 1
    /\ Count("ledgerDeposit") <= 1
    /\ \A i \in DOMAIN dLog :
          /\ dLog[i].ev = "createAccount"
                => dLog[i].n = 0 /\ i > 1 /\ dLog[i - 1].ev = "notFound"
          /\ dLog[i].ev = "ledgerRetry"
                => i > 1 /\ dLog[i - 1].ev = "createOk"
          /\ dLog[i].ev = "notFound"
                => i > 1 /\ dLog[i - 1].ev = "ledgerDeposit"

C6_Witness ==
    /\ Has("notFound") /\ Has("ledgerFail") /\ ~Has("createOk")
    /\ Count("createAccount") = 1 /\ Count("ledgerRetry") = 0
    /\ dFinal.outcome = "ok"

\* C7: when the on-chain deposit succeeded and the ledger synchronisation
\* failed, the terminal status of the invocation is Warning.
C7_WarningIsTerminal ==
    (dFinal.outcome = "ok" /\ Has("ledgerFail")) => dFinal.status = "warning"

\* C8: the phases of a deposit are strictly ordered: an approval is final
\* before the deposit transaction is requested, and the deposit transaction
\* is final before the first ledger deposit request.
C8_PhasesOrdered ==
    /\ tx["approve"].state = "pending" => pc["dep"] = "a_wait"
    /\ tx["deposit"].state = "pending" => pc["dep"] = "d_wait"
    /\ \A i, j \in DOMAIN dLog :
          (dLog[j].ev = "approveTx" /\ dLog[i].ev = "depositReq")
              => j < i /\ \E k \in (j + 1)..(i - 1) : dLog[k].ev = "approveFinal"
    /\ \A i \in DOMAIN dLog :
          dLog[i].ev \in LedgerRequests
              => \E j, k \in 1..(i - 1) :
                    j < k /\ dLog[j].ev = "depositTx" /\ dLog[k].ev = "depositFinal"

C8_Witness ==
    /\ Has("approveFinal") /\ Has("depositFinal") /\ Has("ledgerDeposit")
    /\ dFinal.outcome = "ok"

\* C9: a createAccount request for an address is never issued after a
\* getAccount request for the same address has succeeded.
C9_NoCreateAfterGet == createdAfterGet = {}

\* C10: after disconnect, a deposit fails as not connected before any chain
\* call and before any ledger request.
C10_DepositAfterDisconnectRefused ==
    dStart.afterDisconnect
        => pc["dep"] = "idle" /\ dFinal.outcome = "notConnected" /\ dLog = <<>>

\* ---------------------------------------------------------------------
\* checkUsdcAllowance() as a function of the session and of the allowance
\* ---------------------------------------------------------------------
\* The session a call of checkUsdcAllowance() can find: never connected,
\* connected as X or as Y with the contracts bound at connect, or
\* disconnected with the contracts still bound; any allowance on chain.
InitAllowance ==
    /\ InitPage
    /\ hasEthereum
    /\ usdcContract \in {Null, "X"} /\ vaultContract = usdcContract
    /\ currentAccount \in AccountOrNull
    /\ usdcContract = Null => currentAccount = Null
    /\ isWalletConnected = (currentAccount # Null)
    /\ provider = (IF currentAccount # Null THEN "set" ELSE Null)
    /\ signer = (IF currentAccount # Null THEN usdcContract ELSE Null)
    /\ isUsdcApproved \in BOOLEAN
    /\ allowance \in [Accounts -> 0..MaxAllowance]

\* One call of checkUsdcAllowance() from its guard to its return: the value
\* read (-1 for a read that threw) and the boolean returned are recorded.
CheckAllowance ==
    /\ dLog = <<>>
    /\ IF usdcContract = Null \/ currentAccount = Null
       THEN Commit(CheckSkipped(App))
       ELSE \E v \in ReadValues(currentAccount) :
               Commit(Logged(checkUsdcAllowance(Logged(App, "read", currentAccount, v), v),
                             "check", currentAccount, IF CheckResult(v) THEN 1 ELSE 0))
    /\ UNCHANGED <<walletVars, chainVars, ledgerVars, countVars>>

SpecAllowance == InitAllowance /\ [][CheckAllowance]_vars

CheckReturnedTrue == dLog # <<>> /\ dLog[Len(dLog)].ev = "check" /\ dLog[Len(dLog)].n = 1
CheckRead == IF Len(dLog) = 2 THEN dLog[1].n ELSE -1

\* C20 as stated: a call of checkUsdcAllowance() by a connected account
\* returns true exactly when that account's allowance for the vault is at
\* least 1 USDC.
C20_TrueIffAllowanceAtLeastOneUsdc ==
    (dLog # <<>> /\ currentAccount # Null)
        => (CheckReturnedTrue <=> allowance[currentAccount] >= minAllowance)

\* C20, amended: when the allowance read succeeds, checkUsdcAllowance()
\* returns true exactly when the account's allowance for the vault is at
\* least 1 USDC, and isUsdcApproved holds that result; it returns false
\* when there is no token contract or no account, or when the read throws,
\* whatever the allowance.
C20_TrueIffReadAtLeastOneUsdc ==
    dLog # <<>> =>
        /\ Len(dLog) = 1 => (usdcContract = Null \/ currentAccount = Null) /\ ~CheckReturnedTrue
        /\ (Len(dLog) = 2 /\ CheckRead < 0) => ~CheckReturnedTrue
        /\ (Len(dLog) = 2 /\ CheckRead >= 0) =>
              /\ CheckRead = allowance[currentAccount]
              /\ CheckReturnedTrue <=> allowance[currentAccount] >= minAllowance
              /\ isUsdcApproved <=> CheckReturnedTrue

C20_Witness ==
    /\ Len(dLog) = 2 /\ CheckRead = minAllowance /\ CheckReturnedTrue
    /\ allowance[currentAccount] = minAllowance

\* ---------------------------------------------------------------------
\* Network selection and the wallet session
\* ---------------------------------------------------------------------
CCount(e) == Cardinality({i \in DOMAIN cLog : cLog[i] = e})
CHas(e) == \E i \in DOMAIN cLog : cLog[i] = e
CLast == IF cLog = <<>> THEN "none" ELSE cLog[Len(cLog)]
SessionVars == <<currentAccount, isWalletConnected, signer>>

\* C14: when checkAndSwitchNetwork returns false during connect, the connect
\* call ends there: it returns without having requested account access, and
\* that step leaves the address, the connected flag and the signer as they
\* were (null, false, null for a session that was not connected).  Account
\* access is only ever requested after the network check returned true.
C14_RefusedNetworkEndsConnect ==
    [][ /\ (cNet' = "false" /\ cNet = "none")
            => /\ pc'["conn"] = "idle"
               /\ "accounts" \notin {cLog'[i] : i \in DOMAIN cLog'}
               /\ SessionVars' = SessionVars
               /\ (nConnects' = 1 =>
                      currentAccount' = Null /\ ~isWalletConnected' /\ signer' = Null)
        /\ ("accounts" \in {cLog'[i] : i \in DOMAIN cLog'}) => cNet' = "true"
      ]_vars

C14_Witness ==
    /\ cNet = "false" /\ pc["conn"] = "idle" /\ CLast = "switchDeclined"
    /\ currentAccount = Null /\ ~isWalletConnected /\ signer = Null

\* C15: once the wallet has reported the chain unknown and the chain-add
\* has succeeded, the switch has been requested a second time before
\* checkAndSwitchNetwork returns.
C15_SwitchRetriedAfterAdd ==
    CHas("addOk") => CCount("switch") = 2

C15_Witness ==
    CHas("addOk") /\ cNet = "true" /\ CCount("switch") = 1 /\ ~walletChainOk

\* C16: checkAndSwitchNetwork returns false, and connectWallet sees that
\* result rather than an exception or true, when there is no wallet
\* provider, when the user declines the switch, and when the user declines
\* the chain-add.
C16_NetworkFalseOnRefusal ==
    /\ ~hasEthereum => checkAndSwitchNetwork(App).cNet = "false"
    /\ CHas("switchDeclined") => cNet = "false" /\ CLast = "switchDeclined"
    /\ CHas("addDeclined") => cNet = "false" /\ CLast = "addDeclined"
    /\ cNet = "false" => pc["conn"] = "idle"

C16_Witness ==
    cNet = "false" /\ CLast = "addDeclined" /\ CCount("switch") = 1

\* C17: an account-changed notification heard by the page does one of three
\* things.  With an empty list the session becomes disconnected.  With a
\* first account other than the active one, that account becomes the active
\* one and getAccountInfo is run again for it.  With the active account
\* itself, nothing of the page changes and no refresh starts.
C17_AccountsChangedBranches ==
    [][ (listening /\ walletSel' # walletSel) =>
          LET a == walletSel' IN
          /\ a = Null =>
                /\ currentAccount' = Null /\ ~isWalletConnected'
                /\ signer' = Null /\ provider' = Null
                /\ pc'["evt"] = "idle"
          /\ (a # Null /\ a # currentAccount) =>
                /\ currentAccount' = a
                /\ App' = getAccountInfo([App EXCEPT !.currentAccount = a,
                                                     !.isWalletConnected = TRUE,
                                                     !.ret["evt"] = "e_done"], "evt")
                /\ provider # Null => pc'["evt"] = "gi_get" /\ arg'["evt"] = a
          /\ (a # Null /\ a = currentAccount) => appVars' = appVars
      ]_vars

C17_Witness ==
    /\ listening /\ walletSel = "Y" /\ currentAccount = "Y"
    /\ pc["evt"] = "gi_get" /\ arg["evt"] = "Y" /\ pc["conn"] = "idle"

\* C18: a click on disconnect, in whatever state the page is (a connect or
\* a deposit may be in flight), leaves the address null, the connected flag
\* false and the signer null, and disconnecting the resulting state once
\* more changes nothing.
C18_DisconnectClearsSession ==
    [][ (nEvents' # nEvents /\ walletSel' = walletSel) =>
          /\ currentAccount' = Null /\ ~isWalletConnected' /\ signer' = Null
          /\ App' = disconnectWallet(App)
          /\ disconnectWallet(App') = App'
      ]_vars

C18_Witness ==
    /\ afterDisconnect /\ pc["dep"] \notin {"idle"} /\ dStart.connected
    /\ currentAccount = Null /\ ~isWalletConnected /\ signer = Null

\* ---------------------------------------------------------------------
\* Chain changes
\* ---------------------------------------------------------------------
\* window.location.reload(): the page starts again, with every global at
\* its initial value and every suspended function gone.
Reload(st) ==
    [st EXCEPT !.provider = Null, !.signer = Null, !.currentAccount = Null,
               !.isWalletConnected = FALSE,
               !.usdcContract = Null, !.vaultContract = Null,
               !.isUsdcApproved = FALSE, !.listening = FALSE,
               !.btnDisabled = FALSE, !.approveDisabled = FALSE,
               !.statusClasses = {}, !.statusText = NoMsg, !.statusLast = "",
               !.pc = [p \in Procs |-> "idle"],
               !.arg = [p \in Procs |-> Null],
               !.ret = [p \in Procs |-> "none"],
               !.dAmount = 0, !.dSite = "H", !.dErr = "",
               !.cLog = <<>>, !.cNet = "none", !.missedChain = FALSE, !.aStat = <<>>,
               !.invOpen = FALSE, !.invStatus = NoInvStatus, !.invForm = NoForm]

\* The wallet moves to another chain.  The listener of line 741 reloads the
\* page; before it is registered nothing in the page runs, and a connected
\* session goes on with the bindings it has.
WalletChainChanged ==
    /\ hasEthereum
    /\ nEvents < MaxWalletEvents
    /\ nEvents' = nEvents + 1
    /\ walletChainOk' = ~walletChainOk
    /\ walletKnowsChain' = (walletKnowsChain \/ walletChainOk')
    /\ IF listening
       THEN Commit(Reload(App))
       ELSE Commit([App EXCEPT !.missedChain = @ \/ isWalletConnected])
    /\ UNCHANGED <<walletSel, hasEthereum, chainVars, ledgerVars, nDeposits, nConnects>>

NextChain ==
    \/ Connect
    \/ \E p \in Procs : Refresh(p)
    \/ WalletChainChanged

SpecChain == Init /\ [][NextChain]_vars

\* C19: a chain change of the wallet while the session is connected tears
\* the session down in that very step (no account, not connected, no
\* contract bound, nothing of the old session still running), so that
\* nothing can run on the old contract bindings afterwards.
C19_ChainChangeTearsDownSession ==
    [][ (isWalletConnected /\ nEvents' # nEvents /\ walletChainOk' # walletChainOk) =>
          /\ currentAccount' = Null /\ ~isWalletConnected'
          /\ usdcContract' = Null /\ vaultContract' = Null
          /\ \A p \in Procs : pc'[p] = "idle"
      ]_vars

\* A chain change nobody heard, and the connect that was in flight is now
\* reading the allowance through the contract bound before the change.
C19_Witness ==
    missedChain /\ pc["conn"] = "ub_allow" /\ usdcContract # Null /\ ~listening

\* ---------------------------------------------------------------------
\* Strategy investment
\* ---------------------------------------------------------------------
\* Form values are strings, written here as sequences of characters.  The
\* strings considered use digits, ".", "-", "+", blanks, the word Infinity
\* and letters that belong to no number (no exponent, no 0x prefix).
\* s[i..j], cut at the end of s (String.prototype.substring)
Slice(s, i, j) ==
    LET e == IF j > Len(s) THEN Len(s) ELSE j
    IN  IF e < i THEN <<>> ELSE [k \in 1..(e - i + 1) |-> s[k + i - 1]]

DigitChars == <<"0", "1", "2", "3", "4", "5", "6", "7", "8", "9">>
IsDigit(c) == \E n \in 1..10 : DigitChars[n] = c
DigitVal(c) == (CHOOSE n \in 1..10 : DigitChars[n] = c) - 1
InfinityChars == <<"I", "n", "f", "i", "n", "i", "t", "y">>

\* The value of a run of decimal digits
RECURSIVE DigitsValue(_)
DigitsValue(ds) ==
    IF ds = <<>> THEN 0
    ELSE 10 * DigitsValue(Slice(ds, 1, Len(ds) - 1)) + DigitVal(ds[Len(ds)])

\* The first index from i on that holds no digit
RECURSIVE DigitsEnd(_, _)
DigitsEnd(s, i) ==
    IF i <= Len(s) /\ IsDigit(s[i]) THEN DigitsEnd(s, i + 1) ELSE i

RECURSIVE TrimLeft(_)
TrimLeft(s) == IF s # <<>> /\ s[1] = " " THEN TrimLeft(Tail(s)) ELSE s

RECURSIVE TrimRight(_)
TrimRight(s) ==
    IF s # <<>> /\ s[Len(s)] = " " THEN TrimRight(Slice(s, 1, Len(s) - 1)) ELSE s

\* Fraction digits without their trailing zeros
RECURSIVE StripZeros(_)
StripZeros(ds) ==
    IF ds # <<>> /\ ds[Len(ds)] = "0" THEN StripZeros(Slice(ds, 1, Len(ds) - 1)) ELSE ds

\* A JavaScript number: NaN, an infinity, or sign, integer part and
\* fraction digits; used is the number of characters the parse consumed.
NaN == [kind |-> "nan", neg |-> FALSE, int |-> 0, frac |-> <<>>, used |-> 0]
Num(neg, int, frac, used) ==
    [kind |-> "num", neg |-> neg, int |-> int, frac |-> frac, used |-> used]
Inf(neg, used) == [kind |-> "inf", neg |-> neg, int |-> 0, frac |-> <<>>, used |-> used]

\* The longest numeric prefix of t, t without leading blanks
ParsePrefix(t) ==
    LET signed == t # <<>> /\ t[1] \in {"-", "+"}
        neg == t # <<>> /\ t[1] = "-"
        i0 == IF signed THEN 2 ELSE 1
        i1 == DigitsEnd(t, i0)
        hasDot == i1 <= Len(t) /\ t[i1] = "."
        i2 == IF hasDot THEN DigitsEnd(t, i1 + 1) ELSE i1
    IN  IF Slice(t, i0, i0 + 7) = InfinityChars
        THEN Inf(neg, i0 + 7)
        ELSE IF i1 = i0 /\ (~hasDot \/ i2 = i1 + 1)
             THEN NaN
             ELSE Num(neg, DigitsValue(Slice(t, i0, i1 - 1)),
                      IF hasDot THEN StripZeros(Slice(t, i1 + 1, i2 - 1)) ELSE <<>>,
                      i2 - 1)

\* parseFloat(s): leading blanks skipped, trailing characters ignored
parseFloat(s) == ParsePrefix(TrimLeft(s))

\* Number(s): blanks trimmed, "" is 0, anything but a whole literal is NaN
Number(s) ==
    LET t == TrimRight(TrimLeft(s))
        r == ParsePrefix(t)
    IN  IF t = <<>> THEN Num(FALSE, 0, <<>>, 0)
        ELSE IF r.kind # "nan" /\ r.used = Len(t) THEN r ELSE NaN

isNaN(v) == v.kind = "nan"
\* v > 0 and v <= 0 (both false for NaN)
IsPositive(v) ==
    /\ v.kind # "nan" /\ ~v.neg
    /\ v.kind = "inf" \/ v.int > 0 \/ v.frac # <<>>
NotPositive(v) == v.kind # "nan" /\ ~IsPositive(v)

\* Math.floor(v)
floor(v) ==
    IF v.kind # "num" \/ v.frac = <<>> THEN v
    ELSE IF v.neg THEN Num(TRUE, v.int + 1, <<>>, v.used)
         ELSE Num(FALSE, v.int, <<>>, v.used)

\* A number as JSON.stringify writes it: NaN and the infinities become null
JsonNull == [kind |-> "null"]
JsonNumber(v) ==
    IF v.kind = "num" THEN [kind |-> "num", neg |-> v.neg /\ (v.int > 0 \/ v.frac # <<>>),
                            int |-> v.int, frac |-> v.frac]
    ELSE JsonNull
IsPositiveInteger(j) == j.kind = "num" /\ ~j.neg /\ j.frac = <<>> /\ j.int > 0

\* The strings typed or found in the two form fields
RawStrings ==
    { <<>>, <<" ">>, <<"a", "b", "c">>, <<"0">>, <<"-", "5">>, <<"0", ".", "5">>,
      <<"2">>, <<"2", ".", "5">>, <<"1", "0">>, <<"1", "0", ".", "7">>,
      <<"1", "0", "a">>, InfinityChars }

InvLogged(st, e) == [st EXCEPT !.invLog = Append(@, e)]
InvEnd(st) == [st EXCEPT !.pc["inv"] = "idle", !.arg["inv"] = Null, !.ret["inv"] = "none"]
setInvestmentStatus(st, message, status) == [st EXCEPT !.invStatus = InvStatus(message, status)]

\* The catch of handleInvestmentSubmit (lines 1305-1313)
InvestCatch(st, message) == InvEnd(setInvestmentStatus(st, Msg("Error: ", message), "error"))

\* A handler that sends the request without the checks of lines 1246-1252.
InvestCheckedNothing(st, strategyId, amount, strategyIdNum, amountNum) ==
    [InvLogged(st, [ev |-> "invest", address |-> st.currentAccount,
                    strategy_id |-> JsonNumber(strategyIdNum),
                    amount |-> JsonNumber(amountNum)])
        EXCEPT !.pc["inv"] = "iv_post"]

\* handleInvestmentSubmit, lines 1246-1273: the checks on the converted
\* values, then the POST /invest request
InvestChecked(st, strategyId, amount, strategyIdNum, amountNum) ==
    IF isNaN(strategyIdNum) \/ NotPositive(strategyIdNum)
    THEN InvestCatch(InvLogged(st, [ev |-> "invalidStrategy"]), "Invalid strategy ID")
    ELSE IF isNaN(amountNum) \/ NotPositive(amountNum)
         THEN InvestCatch(InvLogged(st, [ev |-> "invalidAmount"]), "Invalid amount")
         ELSE [InvLogged(st, [ev |-> "invest", address |-> st.currentAccount,
                              strategy_id |-> JsonNumber(strategyIdNum),
                              amount |-> JsonNumber(amountNum)])
                  EXCEPT !.pc["inv"] = "iv_post"]

\* handleInvestmentSubmit(e) up to its first await (lines 1204-1273)
handleInvestmentSubmit(st, strategyId, amount) ==
    LET s0 == [st EXCEPT !.invLog = << [ev |-> "submit", strategyId |-> strategyId,
                                        amount |-> amount] >>]
    IN  IF strategyId = <<>>
        THEN InvLogged(s0, [ev |-> "alert"])
        ELSE IF amount = <<>> \/ isNaN(parseFloat(amount)) \/ NotPositive(parseFloat(amount))
             THEN InvLogged(s0, [ev |-> "alert"])
             ELSE InvestChecked(
                      setInvestmentStatus(s0, Msg("Processing investment...", ""), "pending"),
                      strategyId, amount, Number(strategyId), floor(parseFloat(amount)))

\* investWithStrategy(strategyId, strategyName) up to its first await
investWithStrategy(st) ==
    IF ~st.isWalletConnected \/ st.currentAccount = Null
    THEN st
    ELSE [st EXCEPT !.pc["inv"] = "iv_get", !.arg["inv"] = st.currentAccount,
                    !.invLog = <<>>]

\* Click on a strategy's invest button.
InvestOpen ==
    /\ pc["inv"] = "idle"
    /\ ~invOpen
    /\ nInvests < MaxInvests
    /\ Commit(investWithStrategy(App))
    /\ UNCHANGED <<walletVars, chainVars, ledgerVars, countVars>>

\* investWithStrategy: the balance request returned, whatever its answer;
\* the submit listener is attached (lines 1163-1200)
InvestGet ==
    /\ pc["inv"] = "iv_get"
    /\ Commit(InvEnd([App EXCEPT !.invOpen = TRUE]))
    /\ UNCHANGED <<walletVars, chainVars, ledgerVars, countVars>>

\* Submission of the investment form with the two field values.
InvestSubmit(strategyId, amount) ==
    /\ invOpen
    /\ pc["inv"] = "idle"
    /\ nInvests < MaxInvests
    /\ Commit(handleInvestmentSubmit([App EXCEPT !.nInvests = @ + 1], strategyId, amount))
    /\ UNCHANGED <<walletVars, chainVars, ledgerVars, countVars>>

\* handleInvestmentSubmit: POST /invest returned (lines 1275-1304)
InvestPost ==
    /\ pc["inv"] = "iv_post"
    /\ \/ Commit(getAccountInfo(
              [setInvestmentStatus(InvLogged(App, [ev |-> "ok"]),
                                   Msg("Investment successful!", ""), "success")
                  EXCEPT !.ret["inv"] = "i_done"], "inv"))
       \/ Commit(InvEnd(setInvestmentStatus(InvLogged(App, [ev |-> "refused"]),
                                            Msg("Investment failed: ", "server"), "error")))
       \/ Commit(InvestCatch(InvLogged(App, [ev |-> "failed"]), "Failed to fetch"))
    /\ UNCHANGED <<walletVars, chainVars, ledgerVars, countVars>>

Invest ==
    \/ InvestOpen
    \/ InvestGet
    \/ \E strategyId \in RawStrings, amount \in RawStrings : InvestSubmit(strategyId, amount)
    \/ InvestPost

NextInvest ==
    \/ Connect
    \/ \E p \in Procs : Refresh(p)
    \/ Invest

SpecInvest == Init /\ [][NextInvest]_vars

InvRequests == {i \in DOMAIN invLog : invLog[i].ev = "invest"}
InvSubmitted == invLog # <<>> /\ invLog[1].ev = "submit"
StrategyRejected(strategyId) == ~IsPositive(Number(strategyId))
AmountRejected(amount) ==
    amount = <<>> \/ isNaN(parseFloat(amount)) \/ NotPositive(parseFloat(amount))

\* C11: the amount of every /invest request is the floor of the number
\* parsed from the amount typed, and it is a positive integer.
C11_AmountIsFloorAndPositiveInteger ==
    \A i \in InvRequests :
        /\ invLog[i].amount = JsonNumber(floor(parseFloat(invLog[1].amount)))
        /\ IsPositiveInteger(invLog[i].amount)

\* An /invest request sent for the amount "10.7" carries 10; one sent for
\* the amount "Infinity" carries null.
C11_Witness ==
    /\ InvSubmitted /\ InvRequests # {}
    /\ invLog[1].amount = InfinityChars
    /\ invLog[2].amount = JsonNull

\* C12: a submission whose strategy id does not convert to a positive
\* number, or whose amount is empty, not a number, zero or negative, ends
\* without an /invest request and with no request of the handler in flight.
C12_InvalidSubmissionSendsNothing ==
    (InvSubmitted /\ (StrategyRejected(invLog[1].strategyId) \/ AmountRejected(invLog[1].amount)))
        => InvRequests = {} /\ pc["inv"] = "idle"

C12_Witness ==
    /\ InvSubmitted
    /\ invLog[1].strategyId = <<"a", "b", "c">> /\ invLog[1].amount = <<"1", "0">>
    /\ invLog[Len(invLog)].ev = "invalidStrategy"
    /\ invStatus.kind = "error" /\ pc["inv"] = "idle"

\* C13: the strategy_id of every /invest request is a positive integer.
C13_StrategyIdIsPositiveInteger ==
    \A i \in InvRequests : IsPositiveInteger(invLog[i].strategy_id)

\* An /invest request sent for the strategy id "2.5" carries 2.5.
C13_Witness ==
    /\ InvSubmitted /\ InvRequests # {}
    /\ invLog[1].strategyId = <<"2", ".", "5">>
    /\ invLog[2].strategy_id.frac = <<"5">>

\* ---------------------------------------------------------------------
\* The session after a disconnect, and the chain at connect
\* ---------------------------------------------------------------------
\* C29: between a disconnect and the next connect, an account-changed
\* notification that names an account leaves the session disconnected:
\* the address stays null and the connected flag stays false.
C29_NotificationAfterDisconnectIgnored ==
    [][ (/\ afterDisconnect /\ currentAccount = Null /\ ~isWalletConnected
         /\ pc["conn"] = "idle"
         /\ walletSel' # walletSel /\ walletSel' # Null)
           => currentAccount' = Null /\ ~isWalletConnected'
      ]_vars

\* A session that a notification brought back after the disconnect: an
\* account and the connected flag, but neither provider nor signer.
C29_Witness ==
    /\ afterDisconnect /\ isWalletConnected /\ currentAccount = walletSel
    /\ currentAccount # Null /\ provider = Null /\ signer = Null
    /\ pc["conn"] = "idle"

\* C30: when checkAndSwitchNetwork returns true the wallet is on the
\* required chain, so that connectWallet asks for the accounts and marks
\* the session connected only with the wallet on that chain.
C30_NetworkTrueMeansRequiredChain ==
    [][ /\ (cNet = "none" /\ cNet' = "true") => walletChainOk'
        /\ (pc["conn"] # "c_accounts" /\ pc'["conn"] = "c_accounts") => walletChainOk'
        /\ (~isWalletConnected /\ isWalletConnected' /\ pc["conn"] = "c_signer")
              => walletChainOk'
      ]_vars

C30_Witness ==
    /\ cNet = "true" /\ ~walletChainOk /\ isWalletConnected
    /\ pc["conn"] = "c_get" /\ currentAccount # Null

\* ---------------------------------------------------------------------
\* Status of an approval
\* ---------------------------------------------------------------------
ApproveEnds == {"returned", "threw", "threwAtGuard"}
ApproveCallEnded == aStat # <<>> /\ aStat[Len(aStat)] \in ApproveEnds
\* The statuses the ended call wrote, in order
ApproveStatuses == Slice(aStat, 1, Len(aStat) - 1)
ApproveTerminals == {i \in DOMAIN ApproveStatuses : ApproveStatuses[i] \in {"success", "error"}}
PendingThenOneTerminal ==
    /\ Len(ApproveStatuses) >= 2
    /\ ApproveStatuses[1] = "pending"
    /\ ApproveTerminals = {Len(ApproveStatuses)}

\* C21 as stated: every call of approveUsdc that has ended wrote pending
\* first and then exactly one of success or error, as its last status.
C21_EveryApproveCallPendingThenTerminal ==
    ApproveCallEnded => PendingThenOneTerminal

\* C21, amended: a call of approveUsdc that finds the token contract and an
\* account wrote pending first and ended with exactly one of success (when
\* it returned) or error (when it threw); a call that finds no contract or
\* no account throws before writing any status.
C21_ApprovePastGuardPendingThenTerminal ==
    ApproveCallEnded =>
        LET how == aStat[Len(aStat)] IN
        /\ how = "threwAtGuard" => ApproveStatuses = <<>>
        /\ how = "returned" =>
              PendingThenOneTerminal /\ ApproveStatuses[Len(ApproveStatuses)] = "success"
        /\ how = "threw" =>
              PendingThenOneTerminal /\ ApproveStatuses[Len(ApproveStatuses)] = "error"

C21_Witness ==
    aStat = <<"pending", "pending", "success", "returned">> /\ Has("approveFinal")

\* ---------------------------------------------------------------------
\* The refresh that ends a deposit
\* ---------------------------------------------------------------------
RefreshSteps == {"ub_get", "ub_allow"}
DepositReturnsOk == pc["dep"] # "idle" /\ pc'["dep"] = "idle" /\ dFinal'.outcome = "ok"

C23_EveryCreateIsSigned ==
    \A r \in created : r.signature.signed /\ r.signature.msg = r.address

\* A create_account request sent by a deposit, without a signature, next
\* to the signed one of connect.
C23_Witness ==
    /\ [address |-> "X", signature |-> NoSignature] \in created
    /\ pc["dep"] = "l_create" /\ Has("depositTx")

\* ---------------------------------------------------------------------
\* The vault contract, called by anyone
\* ---------------------------------------------------------------------
ORACLE == "ORACLE"
Callers == Accounts \cup {ORACLE}

\* Any vault state: what the accounts have deposited and allowed so far
InitVault ==
    /\ InitSession
    /\ InitPage
    /\ hasEthereum
    /\ allowance \in [Accounts -> {0, MaxDepositUnits}]

\* SimpleUSDCVault.deposit(amount) sent by an account: it succeeds when
\* amount > 0, transferFrom succeeds and the checked addition fits;
\* otherwise the transaction reverts and changes nothing.
CallDeposit(sender, amount) ==
    /\ vLast.n < MaxVaultCalls
    /\ \/ /\ VaultDeposit(sender, amount)
          /\ balances[sender] + amount <= UintMax
          /\ Commit([App EXCEPT !.vLast = VaultCall(vLast.n + 1, "deposit", sender, amount, "ok"),
                                !.vHeld = @ + amount])
       \/ /\ UNCHANGED <<allowance, balances>>
          /\ Commit([App EXCEPT !.vLast = VaultCall(vLast.n + 1, "deposit", sender, amount,
                                                    "reverted")])
    /\ UNCHANGED <<walletVars, tx, ledgerVars, countVars>>

\* SimpleUSDCVault.oracleWithdraw(amount): onlyOracle, amount > 0, then a
\* token transfer to ORACLE that may fail, and fails when the vault holds
\* less than amount; balances is not written.
CallOracleWithdraw(caller, amount) ==
    /\ vLast.n < MaxVaultCalls
    /\ \/ /\ caller = ORACLE /\ amount > 0 /\ amount <= vHeld
          /\ Commit([App EXCEPT !.vLast = VaultCall(vLast.n + 1, "oracleWithdraw", caller,
                                                    amount, "ok"),
                                !.vHeld = @ - amount])
       \/ Commit([App EXCEPT !.vLast = VaultCall(vLast.n + 1, "oracleWithdraw", caller,
                                                 amount, "reverted")])
    /\ UNCHANGED <<walletVars, chainVars, ledgerVars, countVars>>

\* USDC.approve(vault, amount) sent by an account
CallApprove(sender, amount) ==
    /\ vLast.n < MaxVaultCalls
    /\ TokenApprove(sender, amount)
    /\ Commit([App EXCEPT !.vLast = VaultCall(vLast.n + 1, "approve", sender, amount, "ok")])
    /\ UNCHANGED <<walletVars, tx, ledgerVars, countVars>>

NextVault ==
    \/ \E a \in Accounts, n \in 0..MaxDepositUnits : CallDeposit(a, n)
    \/ \E c \in Callers, n \in 0..MaxDepositUnits : CallOracleWithdraw(c, n)
    \/ \E a \in Accounts, n \in {0, MaxDepositUnits} : CallApprove(a, n)

SpecVault == InitVault /\ [][NextVault]_vars

\* C25: an entry balances[a] changes only in a successful deposit(amount)
\* sent by a, with amount > 0 and the tokens taken from a's allowance, and
\* then it grows by exactly amount while no other entry changes; a deposit
\* that reverts and every oracleWithdraw leave balances as it was; an
\* oracleWithdraw from anyone but ORACLE reverts.
C25_BalancesChangeOnlyByDeposit ==
    [][ /\ \A a \in Accounts :
              balances'[a] # balances[a] =>
                 /\ vLast' = VaultCall(vLast.n + 1, "deposit", a, vLast'.amount, "ok")
                 /\ vLast'.amount > 0
                 /\ allowance'[a] = allowance[a] - vLast'.amount
                 /\ balances' = [balances EXCEPT ![a] = @ + vLast'.amount]
        /\ (vLast'.n # vLast.n /\ vLast'.fn = "deposit" /\ vLast'.result = "ok")
              => balances'[vLast'.sender] = balances[vLast'.sender] + vLast'.amount
        /\ (vLast'.n # vLast.n /\ (vLast'.result = "reverted" \/ vLast'.fn = "oracleWithdraw"))
              => balances' = balances
        /\ (vLast'.n # vLast.n /\ vLast'.fn = "oracleWithdraw" /\ vLast'.sender # ORACLE)
              => vLast'.result = "reverted"
      ]_vars

C25_Witness ==
    /\ vLast = VaultCall(3, "oracleWithdraw", ORACLE, MaxDepositUnits, "ok")
    /\ balances["X"] = MaxDepositUnits /\ balances["Y"] = 0

\* ---------------------------------------------------------------------
\* A deposit whose every leg succeeded
\* ---------------------------------------------------------------------
\* The invocation has ended, its deposit transaction was mined and the
\* ledger accepted the deposit (directly or after create_account).
\* Both accounts have approved the vault before the page is loaded.
InitBothApproved ==
    /\ InitSession
    /\ InitPage
    /\ allowance = [a \in Accounts |-> MaxAllowance]

SpecBothApproved == InitBothApproved /\ [][Next]_vars

AllLegsSucceeded ==
    /\ pc["dep"] = "idle" /\ dFinal.outcome = "ok"
    /\ Has("depositFinal") /\ Has("ledgerOk") /\ ~Has("ledgerFail")

\* C26: after a deposit of A by the active account whose every leg
\* succeeded, the status is success, and the vault balance and the ledger
\* balance of that account are each exactly A above what they were when the
\* deposit was submitted.
C26_AllLegsSucceededCreditsBoth ==
    AllLegsSucceeded =>
        /\ dFinal.status = "success"
        /\ dStart.acct \in Accounts
        /\ balances[dStart.acct] = dStart.balances[dStart.acct] + dStart.amount
        /\ ledgerBal[dStart.acct] = dStart.ledgerBal[dStart.acct] + dStart.amount

\* Every leg succeeded, yet the vault credited the account whose signer the
\* contracts were bound to, not the account that was active.
C26_Witness ==
    /\ AllLegsSucceeded /\ dStart.acct = "Y"
    /\ currentAccount = "Y" /\ signer = "X" /\ dFinal.status = "success"
    /\ balances["X"] = dStart.balances["X"] + dStart.amount
    /\ balances["Y"] = dStart.balances["Y"]
    /\ ledgerBal["Y"] = dStart.ledgerBal["Y"] + dStart.amount

\* ------------------------------------------------ requests per invocation
\* Values of the two fields of the investment form: one that each check of
\* handleInvestmentSubmit rejects and one that it accepts.
RetryStrings == { <<>>, <<"-", "5">>, <<"2">> }

\* The deposit and the investment handlers with the wallet left alone.
NextRetry ==
    \/ Connect
    \/ Deposit
    \/ \E p \in Procs : Refresh(p)
    \/ \E k \in {"approve", "deposit"} : MineTx(k)
    \/ InvestOpen
    \/ InvestGet
    \/ \E strategyId \in RetryStrings, amount \in RetryStrings : InvestSubmit(strategyId, amount)
    \/ InvestPost

SpecRetry == Init /\ [][NextRetry]_vars

\* The ledger answered the first POST /deposit with a failure that is not
\* "not found".
LedgerFailedOtherwise ==
    \E i \in DOMAIN dLog :
        /\ dLog[i].ev = "ledgerFail"
        /\ i > 1 /\ dLog[i - 1].ev = "ledgerDeposit"

\* C24: nothing is retried but the one ledger deposit after "not found":
\* an invocation of deposit sends at most one on-chain deposit
\* transaction, at most two ledger /deposit requests and at most one
\* /create_account request; a ledger deposit failure that is not "not
\* found" is followed by no create and no second deposit; a submission of
\* the investment form sends at most one /invest request.
C24_NoRetryButTheLedgerOne ==
    /\ Count("depositTx") <= 1
    /\ Count("ledgerDeposit") + Count("ledgerRetry") <= 2
    /\ Count("createAccount") <= 1
    /\ LedgerFailedOtherwise => ~Has("createAccount") /\ ~Has("ledgerRetry")
    /\ Cardinality(InvRequests) <= 1

C24_Witness ==
    /\ pc["dep"] = "idle" /\ dFinal.outcome = "ok"
    /\ Count("depositTx") = 1
    /\ Count("ledgerDeposit") = 1 /\ Count("ledgerRetry") = 1
    /\ Count("createAccount") = 1 /\ Has("ledgerFail")
    /\ pc["inv"] = "idle" /\ Cardinality(InvRequests) = 1
    /\ invLog[Len(invLog)].ev = "failed"

\* ---------------------------------------------- writers of currentAccount
\* The step is connectWallet storing the requested account (line 670).
ConnectStoresAccount == pc["conn"] = "c_signer" /\ pc'["conn"] = "c_get"
\* The step is a click on the disconnect button (disconnectWallet, line 772).
DisconnectStep == nEvents' = nEvents + 1 /\ walletSel' = walletSel
\* The step is the accountsChanged handler running (lines 756-768).
AccountsChangedStep == listening /\ walletSel' # walletSel

DepositInFlight == pc["dep"] # "idle"
\* The approval transaction sent by approveUsdc is not mined yet.
ApprovalInFlight == tx["approve"].state = "pending"

\* C28: the deposit button is disabled from the start of an invocation of
\* the deposit form handler until its terminal outcome, so that no
\* submission is accepted while an invocation is in flight; an approval
\* transaction in flight is the one the invocation in flight waits for.
C28_DepositsSerialized ==
    /\ DepositInFlight => btnDisabled
    /\ ApprovalInFlight => pc["dep"] = "a_wait" /\ btnDisabled

C28_Witness ==
    /\ DepositInFlight /\ ApprovalInFlight /\ btnDisabled
    /\ Count("approveTx") = 2

\* ---------------------------------------------------------------------
\* The bindings of a connected session
\* ---------------------------------------------------------------------
\* The signer and both contracts exist and were obtained for the active
\* account.
SessionBound ==
    /\ signer # Null /\ usdcContract # Null /\ vaultContract # Null
    /\ signer = currentAccount
    /\ usdcContract = currentAccount /\ vaultContract = currentAccount

\* C31: whenever the session is marked connected, the signer and the
\* contract bindings are non-null and belong to the active account, also
\* after an account-changed notification.
C31_ConnectedSessionIsBound ==
    isWalletConnected => SessionBound

C31_Witness ==
    /\ isWalletConnected /\ currentAccount = "Y" /\ walletSel = "Y"
    /\ signer = "X" /\ usdcContract = "X" /\ vaultContract = "X"
    /\ pc["conn"] = "idle" /\ pc["evt"] = "idle" /\ ~afterDisconnect

\* ---------------------------------------------------------------------
\* The address of the ledger requests of a deposit
\* ---------------------------------------------------------------------
\* The account that was active when vaultContract.deposit() was called.
DepositedBy == { dLog[i].acct : i \in {j \in DOMAIN dLog : dLog[j].ev = "depositBy"} }

\* C32: within one deposit invocation the ledger /deposit request, the
\* /create_account request and the retried /deposit request carry the
\* account that was active when the on-chain deposit was submitted, also
\* when an account change or a disconnect arrives while the invocation
\* waits.
C32_LedgerAddressIsDepositor ==
    \A i \in DOMAIN dLog :
        dLog[i].ev \in LedgerRequests => dLog[i].acct \in DepositedBy

C32_Witness ==
    /\ DepositedBy = {"X"}
    /\ \E i \in DOMAIN dLog : dLog[i].ev = "ledgerDeposit" /\ dLog[i].acct = "Y"
    /\ Has("ledgerOk") /\ ledgerBal["Y"] = dStart.ledgerBal["Y"] + dStart.amount
    /\ balances["X"] = dStart.balances["X"] + dStart.amount
    /\ pc["dep"] = "idle"

\* ---------------------------------------------------------------------
\* The result of depositUsdc
\* ---------------------------------------------------------------------
\* The handler ended after a call of depositUsdc that returned true, or
\* that threw.
DepositReturnedTrue == pc["dep"] = "idle" /\ dFinal.outcome = "ok"
DepositThrew == pc["dep"] = "idle" /\ dFinal.outcome = "thrown"
\* tx.wait() of the on-chain deposit returned for a mined transaction.
DepositConfirmed == Has("depositFinal")

\* C33: depositUsdc returns true exactly when the on-chain deposit
\* transaction was confirmed: a failure of the ledger synchronisation or
\* of the balance refresh after the confirmation never makes it throw, and
\* it never returns true without the confirmation.
C33_TrueIffDepositConfirmed ==
    /\ DepositReturnedTrue => DepositConfirmed
    /\ DepositThrew => ~DepositConfirmed
    /\ (pc["dep"] = "idle" /\ DepositConfirmed) => DepositReturnedTrue

C33_Witness ==
    /\ DepositReturnedTrue /\ DepositConfirmed
    /\ Has("ledgerFail") /\ ~isWalletConnected

\* ---------------------------------------------------------------------
\* Termination of the deposit form handler
\* ---------------------------------------------------------------------
\* The steps of an invocation after the submission: each is the return of
\* a wallet prompt, of a transaction wait or of a request.
DepositStep ==
    \/ DepAllowance \/ ApprovePre \/ ApproveGas \/ ApproveSend \/ ApproveWait
    \/ ApprovePost \/ DepositGas \/ DepositSend \/ DepositWait
    \/ LedgerDep \/ LedgerCreateReturned \/ LedgerRetry

\* The page with connect and deposit, the wallet left alone.
NextLive ==
    \/ Connect
    \/ Deposit
    \/ \E p \in Procs : Refresh(p)
    \/ \E k \in {"approve", "deposit"} : MineTx(k)

\* Every awaited call of the invocation returns or fails, and every
\* transaction sent is mined or reverted.
SpecLive ==
    /\ Init /\ [][NextLive]_vars
    /\ WF_vars(DepositStep)
    /\ WF_vars(Refresh("dep"))
    /\ \A k \in {"approve", "deposit"} : WF_vars(MineTx(k))

\* The handler ended after depositUsdc returned (success or warning
\* written), after depositUsdc threw, or after approveUsdc threw (error
\* written in both), and the deposit button is enabled.
DepositTerminated ==
    /\ pc["dep"] = "idle" /\ ~btnDisabled
    /\ dFinal.outcome \in {"ok", "thrown", "approveFailed"}

\* C34: when every wallet prompt, transaction wait and ledger request
\* returns or fails, every submission of the deposit form that starts an
\* invocation reaches a terminal status and the deposit button is enabled
\* again, also when the approval fails; an invocation that ended in an
\* error shows the error status.
C34_EverySubmissionTerminates ==
    /\ DepositInFlight ~> DepositTerminated
    /\ [](DepositTerminated /\ dFinal.outcome \in {"thrown", "approveFailed"}
             => dFinal.status = "error")

C34_Witness ==
    /\ DepositTerminated /\ dFinal.outcome = "approveFailed"
    /\ dFinal.status = "error" /\ Has("approveTxFail")

\* ---------------------------------------------------------------------
\* The strategy cards and the strategy of an investment
\* ---------------------------------------------------------------------
\* The listings GET /get_all_strategies returns: the ids of the strategies,
\* in the order of the answer.
Listings == { <<1>>, <<1, 2>>, <<2, 1>>, <<3>>, <<2, 3>> }

\* String(n) of a one-digit number
NumberToString(n) == << DigitChars[n + 1] >>

\* loadStrategies(), lines 1081-1122: one card per strategy of the listing
loadStrategies(st, strategies) ==
    [st EXCEPT !.invForm = [listing |-> strategies, card |-> 0, value |-> <<>>]]

\* The argument of investWithStrategy in the button of the card at
\* position index of the forEach (line 1119)
CardStrategyId(index) == index + 1

\* investWithStrategy(strategyId, strategyName), lines 1141-1157: past the
\* guard the hidden field takes the id the button passed
investWithStrategyId(st, strategyId) ==
    IF ~st.isWalletConnected \/ st.currentAccount = Null
    THEN investWithStrategy(st)
    ELSE [investWithStrategy(st) EXCEPT !.invForm.value = NumberToString(strategyId)]

\* The strategies page is shown.
ShowStrategies ==
    /\ invForm.listing = <<>>
    /\ pc["inv"] = "idle"
    /\ \E strategies \in Listings : Commit(loadStrategies(App, strategies))
    /\ UNCHANGED <<walletVars, chainVars, ledgerVars, countVars>>

\* Click on the invest button of the card at position index.
InvestCard(index) ==
    /\ pc["inv"] = "idle"
    /\ ~invOpen
    /\ nInvests < MaxInvests
    /\ index \in 0..(Len(invForm.listing) - 1)
    /\ Commit(investWithStrategyId([App EXCEPT !.invForm.card = index + 1],
                                   CardStrategyId(index)))
    /\ UNCHANGED <<walletVars, chainVars, ledgerVars, countVars>>

\* Submission of the investment form: the strategy id is the value of
\* the hidden field, the amount is typed.
SubmitCard(amount) ==
    /\ invForm.card > 0
    /\ InvestSubmit(invForm.value, amount)

NextListing ==
    \/ Connect
    \/ \E p \in Procs : Refresh(p)
    \/ ShowStrategies
    \/ \E index \in 0..1 : InvestCard(index)
    \/ InvestGet
    \/ \E amount \in { <<"0">>, <<"2">> } : SubmitCard(amount)
    \/ InvestPost

SpecListing == Init /\ [][NextListing]_vars

\* The id of the strategy whose card was chosen
ChosenStrategy == invForm.listing[invForm.card]

\* C35: the strategy_id of an /invest request is the id of the strategy
\* whose card the user chose, whatever ids the listing carries.
C35_InvestsInChosenStrategy ==
    \A i \in InvRequests :
        /\ invForm.card \in DOMAIN invForm.listing
        /\ invLog[i].strategy_id.kind = "num"
        /\ ~invLog[i].strategy_id.neg /\ invLog[i].strategy_id.frac = <<>>
        /\ invLog[i].strategy_id.int = ChosenStrategy

C35_Witness ==
    /\ invForm.listing = <<2, 1>> /\ invForm.card = 1
    /\ \E i \in InvRequests : invLog[i].strategy_id.int = 1
    /\ pc["inv"] = "idle" /\ invStatus.kind = "success"

\* ---------------------------------------------------------------------
\* The address of an investment
\* ---------------------------------------------------------------------
\* The investment modal with a wallet that changes account or disconnects
\* while the modal is open.
NextInvestSession ==
    \/ Connect
    \/ \E p \in Procs : Refresh(p)
    \/ InvestOpen
    \/ InvestGet
    \/ \E amount \in { <<"0">>, <<"2">> } : InvestSubmit(<<"2">>, amount)
    \/ InvestPost
    \/ \E a \in AccountOrNull : WalletAccountsChanged(a)
    \/ DisconnectClick

SpecInvestSession == Init /\ [][NextInvestSession]_vars

\* The step sends POST /invest.
InvestRequestSent == pc["inv"] = "idle" /\ pc'["inv"] = "iv_post"

\* C36: a POST /invest is sent only by a connected session and carries its
\* account, never null: after a disconnect (or an empty account list)
\* between opening the form and submitting it, no request is sent.
C36_InvestOnlyWhenConnected ==
    [][ InvestRequestSent =>
            /\ isWalletConnected /\ currentAccount \in Accounts
            /\ \A i \in DOMAIN invLog' :
                  invLog'[i].ev = "invest" => invLog'[i].address = currentAccount
      ]_vars

C36_Witness ==
    /\ pc["inv"] = "iv_post" /\ ~isWalletConnected /\ afterDisconnect
    /\ \E i \in InvRequests : invLog[i].address = Null

\* ---------------------------------------------------------------------
\* The status classes of the status element
\* ---------------------------------------------------------------------
\* The texts the deposit flow shows
StatusTexts ==
    { Msg("Approving USDC...", ""), Msg("USDC deposited successfully!", ""),
      Msg("Error depositing USDC: ", "user rejected"),
      Msg("Deposit successful on blockchain, but FHE server update failed. Some features may be limited.", "") }

\* A call updateDepositStatus(message, status)
StatusCall(message, status) ==
    /\ Commit(updateDepositStatus(App, message, status))
    /\ UNCHANGED <<walletVars, chainVars, ledgerVars, countVars>>

NextStatus == \E message \in StatusTexts, status \in StatusKinds : StatusCall(message, status)

\* Any sequence of updateDepositStatus calls on the page as loaded
SpecStatus == Init /\ [][NextStatus]_vars

\* C37: after any sequence of updateDepositStatus calls the status element
\* carries exactly one status, that of the most recent call: a warning set
\* by an earlier call is gone once a later call sets pending, success or
\* error.
C37_OneStatusTheLatest ==
    statusLast \in StatusKinds => statusClasses = {statusLast}

C37_Witness ==
    /\ statusClasses = {"warning", "success"} /\ statusLast = "success"
    /\ statusText = Msg("USDC deposited successfully!", "")

\* ---------------------------------------------------------------------
\* The vault's books and the tokens it holds
\* ---------------------------------------------------------------------
\* The sum of balances[a] over the accounts of S
RECURSIVE BalanceSum(_)
BalanceSum(S) ==
    IF S = {} THEN 0
    ELSE LET a == CHOOSE x \in S : TRUE IN balances[a] + BalanceSum(S \ {a})

\* C38: after any sequence of deposit and oracleWithdraw calls the sum of
\* the balances of all depositors is at most the amount of token the
\* vault holds.
C38_BalancesCoveredByTokens ==
    BalanceSum(Accounts) <= vHeld

C38_Witness ==
    /\ vLast.fn = "oracleWithdraw" /\ vLast.result = "ok"
    /\ BalanceSum(Accounts) = MaxDepositUnits /\ vHeld = 0

\* =====================================================================
\* The two-button variant of the frontend (src/unnamed/part_000): a
\* separate approve button, and a deposit that trusts the cached
\* isUsdcApproved.  checkAndSwitchNetwork, initializeContracts,
\* updateWalletUI, disconnectWallet and updateDepositStatus are the same
\* text as in script.js.
\* =====================================================================
RECURSIVE TbCont(_, _)

\* checkUsdcAllowance() of the variant, the comparison of lines 293-299
TbAllowanceOk(a) == a >= minAllowance

\* updateBalances(), lines 508-510: both buttons follow what
\* checkUsdcAllowance() returned
TbButtons(st, isApproved) ==
    [st EXCEPT !.btnDisabled = ~isApproved, !.approveDisabled = isApproved]

\* updateBalances(), lines 459-499: up to its reads of the balances and of
\* GET /get_account/<currentAccount>
TbUpdateBalances(st, p) ==
    IF ~st.isWalletConnected \/ st.currentAccount = Null
    THEN TbCont(st, p)
    ELSE [st EXCEPT !.pc[p] = "tb_get", !.arg[p] = st.currentAccount]

\* updateBalances(), lines 500-506: checkUsdcAllowance() up to its read; at
\* its guard (line 290) it returns false and leaves the flag alone
TbCheckUsdcAllowance(st, p) ==
    IF st.usdcContract = Null \/ st.currentAccount = Null
    THEN TbCont(TbButtons(st, FALSE), p)
    ELSE [st EXCEPT !.pc[p] = "tb_allow", !.arg[p] = st.currentAccount]

\* getAccountInfo(), lines 658-663: up to its reads
TbGetAccountInfo(st, p) ==
    IF ~st.isWalletConnected \/ st.currentAccount = Null
    THEN TbCont(st, p)
    ELSE IF st.provider = Null
         THEN TbCont(st, p)   \* provider.getBalance throws, caught at line 747
         ELSE [st EXCEPT !.pc[p] = "tb_info", !.arg[p] = st.currentAccount]

\* The deposit form handler, line 1144: the deposit button is disabled
TbHandlerStart(st, amount) == [st EXCEPT !.dAmount = amount, !.btnDisabled = TRUE]

\* The end of the deposit form handler: its finally block (line 1150)
TbHandlerEnd(st, outcome) ==
    [st EXCEPT !.btnDisabled = ~st.isUsdcApproved,
               !.pc["dep"] = "idle", !.arg["dep"] = Null, !.ret["dep"] = "none",
               !.dAmount = 0, !.dErr = "",
               !.dFinal = [outcome |-> outcome, status |-> st.statusLast,
                           text |-> st.statusText, err |-> st.dErr]]

\* What runs when updateBalances() or getAccountInfo() returns to its caller
TbCont(st, p) ==
    CASE st.ret[p] = "tb_info" ->
            \* connectWallet after getAccountInfo(): updateBalances(), line 577
            TbUpdateBalances([st EXCEPT !.ret[p] = "tb_done"], p)
      [] st.ret[p] = "tb_done" ->
            \* connectWallet registers its listeners and returns true
            [st EXCEPT !.listening = TRUE, !.pc[p] = "idle", !.arg[p] = Null,
                       !.ret[p] = "none"]
      [] st.ret[p] = "tb_dep" ->
            \* depositUsdc returns true (line 432); the handler clears the input
            TbHandlerEnd(st, "ok")
      [] OTHER ->
            \* handleAccountsChanged, or the getAccountInfo() of showPage, ends
            [st EXCEPT !.pc[p] = "idle", !.arg[p] = Null, !.ret[p] = "none"]

\* ---------------------------------------------- the refresh (its steps)
\* getAccountInfo: the balance and GET /get_account/<currentAccount>
\* returned; the notification of lines 726-740, then updateBalances()
TbGiGet(p) ==
    /\ pc[p] = "tb_info"
    /\ \/ /\ LedgerGetOk(arg[p])
          /\ Commit(TbUpdateBalances(
                 writeStatusElement(App, Msg("Using real account data from FHE server", ""),
                                    "success"), p))
       \/ Commit(TbUpdateBalances(App, p))
       \/ Commit(TbCont(App, p))          \* getBalance threw: caught at line 747
    /\ UNCHANGED <<walletVars, chainVars, ledgerVars, countVars>>

\* updateBalances: the balance reads and GET /get_account returned (each
\* failure is caught where it happens)
TbUbGet(p) ==
    /\ pc[p] = "tb_get"
    /\ Commit(TbCheckUsdcAllowance(App, p))
    /\ UNCHANGED <<walletVars, chainVars, ledgerVars, countVars>>

\* updateBalances: checkUsdcAllowance() returned, lines 292-305 and 508-510
TbUbAllow(p) ==
    /\ pc[p] = "tb_allow"
    /\ \/ Commit(TbCont(TbButtons(App, FALSE), p))          \* the read failed
       \/ LET isApproved == TbAllowanceOk(allowance[arg[p]])
          IN Commit(TbCont(TbButtons([App EXCEPT !.isUsdcApproved = isApproved],
                                     isApproved), p))
    /\ UNCHANGED <<walletVars, chainVars, ledgerVars, countVars>>

TbRefresh(p) == TbGiGet(p) \/ TbUbGet(p) \/ TbUbAllow(p)

\* ------------------------------------------------- connect and the wallet
\* connectWallet: provider.getSigner() returned; lines 559-574
TbConnSigner ==
    /\ pc["conn"] = "c_signer"
    /\ \/ Commit(ConnectFailed(App))
       \/ /\ walletSel # Null
          /\ LET s1 == [App EXCEPT !.signer = walletSel, !.currentAccount = arg["conn"],
                                   !.afterDisconnect = FALSE]
                 s2 == updateWalletUI(initializeContracts(s1), TRUE)
             IN Commit(TbGetAccountInfo([s2 EXCEPT !.ret["conn"] = "tb_info"], "conn"))
    /\ UNCHANGED <<walletVars, chainVars, ledgerVars, countVars>>

TbConnect ==
    ConnectClick \/ NetChainId \/ NetSwitch \/ NetAdd \/ ConnAccounts \/ TbConnSigner

\* handleAccountsChanged(accounts) of the variant, lines 596-608
TbHandleAccountsChanged(st, a) ==
    IF a = Null
    THEN disconnectWallet(st)
    ELSE IF a # st.currentAccount
         THEN TbGetAccountInfo(updateWalletUI([st EXCEPT !.currentAccount = a], TRUE), "evt")
         ELSE st

\* The wallet's selected account changes; the handler runs when registered.
TbWalletAccountsChanged(a) ==
    /\ hasEthereum
    /\ nEvents < MaxWalletEvents
    /\ a # walletSel
    /\ pc["evt"] = "idle"
    /\ walletSel' = a
    /\ nEvents' = nEvents + 1
    /\ IF listening THEN Commit(TbHandleAccountsChanged(App, a)) ELSE UNCHANGED appVars
    /\ UNCHANGED <<walletChainOk, walletKnowsChain, hasEthereum, chainVars, ledgerVars,
                   nDeposits, nConnects>>

\* showPage('account'), lines 58-66: getAccountInfo() is started, not awaited
TbShowAccountPage ==
    /\ pc["nav"] = "idle"
    /\ nEvents < MaxWalletEvents
    /\ nEvents' = nEvents + 1
    /\ IF isWalletConnected /\ currentAccount # Null
       THEN Commit(TbGetAccountInfo(updateWalletUI(App, TRUE), "nav"))
       ELSE Commit(updateWalletUI(App, FALSE))
    /\ UNCHANGED <<walletVars, chainVars, ledgerVars, nDeposits, nConnects>>

\* ------------------------------------------------- the approve button
\* The catch of the approve button handler (lines 1112-1115)
TbApproveHandlerCatch(st) ==
    [st EXCEPT !.approveDisabled = FALSE,
               !.pc["apr"] = "idle", !.arg["apr"] = Null]

\* The catch of approveUsdc (lines 333-337): the error is rethrown
TbApproveCatch(st, err) ==
    TbApproveHandlerCatch(
        updateDepositStatus(st, Msg("Error approving USDC: ", err), "error"))

\* approveUsdc(), lines 309-320: up to usdcContract.approve(); the guard
\* throws to the handler
TbApproveUsdc(st) ==
    IF st.usdcContract = Null \/ st.currentAccount = Null
    THEN TbApproveHandlerCatch(st)
    ELSE [updateDepositStatus(st, Msg("Approving USDC...", ""), "pending")
             EXCEPT !.pc["apr"] = "ta_send", !.arg["apr"] = st.currentAccount]

\* approveUsdc after tx.wait(), lines 326-332: the flag is set without a
\* read of the allowance, and the buttons are swapped
TbApproveDone(st) ==
    [updateDepositStatus([st EXCEPT !.isUsdcApproved = TRUE],
                         Msg("USDC approved successfully!", ""), "success")
        EXCEPT !.btnDisabled = FALSE, !.approveDisabled = TRUE,
               !.pc["apr"] = "idle", !.arg["apr"] = Null]

\* Click on the approve button (lines 1102-1116)
TbApproveClick ==
    /\ pc["apr"] = "idle"
    /\ ~approveDisabled
    /\ nEvents < MaxWalletEvents
    /\ nEvents' = nEvents + 1
    /\ IF ~isWalletConnected
       THEN UNCHANGED appVars
       ELSE Commit(TbApproveUsdc([App EXCEPT !.approveDisabled = TRUE]))
    /\ UNCHANGED <<walletVars, chainVars, ledgerVars, nDeposits, nConnects>>

\* approveUsdc: usdcContract.approve() returned
TbApproveSend ==
    /\ pc["apr"] = "ta_send"
    /\ \/ /\ Commit(TbApproveCatch(App, "user rejected"))
          /\ UNCHANGED tx
       \/ /\ usdcContract # Null
          /\ tx' = [tx EXCEPT !["approve"] = [state |-> "pending", from |-> usdcContract,
                                              amount |-> maxAmount]]
          /\ Commit([updateDepositStatus(App, Msg("Waiting for approval transaction...", ""),
                                         "pending")
                        EXCEPT !.pc["apr"] = "ta_wait"])
    /\ UNCHANGED <<walletVars, allowance, balances, ledgerVars, countVars>>

\* approveUsdc: tx.wait() returned
TbApproveWait ==
    /\ pc["apr"] = "ta_wait"
    /\ TxSettled("approve")
    /\ tx' = [tx EXCEPT !["approve"] = NoTx]
    /\ IF tx["approve"].state = "reverted"
       THEN Commit(TbApproveCatch(App, "transaction reverted"))
       ELSE Commit(TbApproveDone(App))
    /\ UNCHANGED <<walletVars, allowance, balances, ledgerVars, countVars>>

TbApprove == TbApproveClick \/ TbApproveSend \/ TbApproveWait

\* --------------------------------------------------- the deposit form
\* The allowance the token holds for an account (none without an account)
AllowanceOf(a) == IF a \in Accounts THEN allowance[a] ELSE 0

\* The catch of depositUsdc (lines 433-437) rethrows to the handler, whose
\* catch only logs (lines 1147-1149)
TbDepositCatch(st, err) ==
    TbHandlerEnd(updateDepositStatus([st EXCEPT !.dErr = err],
                                     Msg("Error depositing USDC: ", err), "error"),
                 "thrown")

\* depositUsdc(amount), lines 341-354: the guard on the cached flag, then
\* vaultContract.deposit() is called
TbDepositUsdc(st) ==
    IF st.vaultContract = Null \/ st.currentAccount = Null \/ ~st.isUsdcApproved
    THEN TbHandlerEnd([st EXCEPT !.dErr = "not initialized"], "thrown")
    ELSE [updateDepositStatus(
              Logged(st, "depositReq", st.currentAccount, AllowanceOf(st.currentAccount)),
              Msg("Depositing USDC...", ""), "pending")
             EXCEPT !.pc["dep"] = "tb_send"]

\* depositUsdc from line 426 on: the success status, then updateBalances()
TbDepositFinish(st) ==
    TbUpdateBalances(
        [updateDepositStatus(st, Msg("USDC deposited successfully!", ""), "success")
            EXCEPT !.ret["dep"] = "tb_dep"], "dep")

\* The inner catch of depositUsdc (lines 419-424): a warning, and
\* depositUsdc goes on
TbFheFailed(st) ==
    TbDepositFinish(
        updateDepositStatus(Logged(st, "ledgerFail", st.arg["dep"], 0),
            Msg("Deposit successful on blockchain, but FHE server update failed. Some features may be limited.", ""),
            "warning"))

\* Submission of the deposit form with the amount typed (lines 1120-1152)
TbDepositSubmit(amount) ==
    /\ pc["dep"] = "idle"
    /\ ~btnDisabled
    /\ nDeposits < MaxDeposits
    /\ nDeposits' = nDeposits + 1
    /\ LET s0 == [App EXCEPT !.dLog = <<>>, !.dErr = "", !.dFinal = NoFinal,
                             !.dStart = [acct |-> currentAccount, amount |-> amount,
                                         allow |-> AllowanceOf(currentAccount),
                                         connected |-> isWalletConnected,
                                         afterDisconnect |-> afterDisconnect,
                                         balances |-> balances,
                                         ledgerBal |-> ledgerBal]]
           refused(outcome) == [s0 EXCEPT !.dFinal = [outcome |-> outcome,
                                                      status |-> statusLast,
                                                      text |-> statusText, err |-> ""]]
       IN IF ~isWalletConnected
          THEN Commit(refused("notConnected"))
          ELSE IF ~isUsdcApproved
               THEN Commit(refused("notApproved"))
               ELSE IF amount <= 0
                    THEN Commit(refused("invalid"))
                    ELSE Commit(TbDepositUsdc(TbHandlerStart(s0, amount)))
    /\ UNCHANGED <<walletVars, chainVars, ledgerVars, nConnects, nEvents>>

\* depositUsdc: vaultContract.deposit() returned
TbDepositSend ==
    /\ pc["dep"] = "tb_send"
    /\ \/ /\ Commit(TbDepositCatch(App, "user rejected"))
          /\ UNCHANGED tx
       \/ /\ vaultContract # Null
          /\ tx' = [tx EXCEPT !["deposit"] = [state |-> "pending", from |-> vaultContract,
                                              amount |-> dAmount]]
          /\ Commit([updateDepositStatus(
                         Logged(App, "depositTx", currentAccount, AllowanceOf(currentAccount)),
                         Msg("Waiting for deposit transaction...", ""), "pending")
                        EXCEPT !.pc["dep"] = "tb_wait"])
    /\ UNCHANGED <<walletVars, allowance, balances, ledgerVars, countVars>>

\* depositUsdc: tx.wait() returned; POST /deposit is sent (lines 361-375)
TbDepositWait ==
    /\ pc["dep"] = "tb_wait"
    /\ TxSettled("deposit")
    /\ tx' = [tx EXCEPT !["deposit"] = NoTx]
    /\ IF tx["deposit"].state = "reverted"
       THEN Commit(TbDepositCatch(App, "transaction reverted"))
       ELSE Commit([updateDepositStatus(
                        Logged(App, "ledgerDeposit", currentAccount, dAmount),
                        Msg("Updating FHE server...", ""), "pending")
                       EXCEPT !.pc["dep"] = "tb_ldep", !.arg["dep"] = currentAccount])
    /\ UNCHANGED <<walletVars, allowance, balances, ledgerVars, countVars>>

\* depositUsdc: POST /deposit returned (lines 376-418)
TbLedgerDep ==
    /\ pc["dep"] = "tb_ldep"
    /\ \/ /\ LedgerDeposit(arg["dep"], dAmount)
          /\ Commit(TbDepositFinish(Logged(App, "ledgerOk", arg["dep"], dAmount)))
       \/ /\ IsNotFound(arg["dep"])
          /\ UNCHANGED ledgerVars
          /\ Commit([Logged(App, "createAccount", currentAccount, 0)
                        EXCEPT !.pc["dep"] = "tb_lcreate", !.arg["dep"] = currentAccount])
       \/ /\ UNCHANGED ledgerVars
          /\ Commit(TbFheFailed(App))
    /\ UNCHANGED <<walletVars, chainVars, countVars>>

\* depositUsdc: POST /create_account returned (lines 394-412)
TbLedgerCreate ==
    /\ pc["dep"] = "tb_lcreate"
    /\ \/ /\ LedgerCreate(arg["dep"])
          /\ Commit([Logged(App, "ledgerRetry", currentAccount, dAmount)
                        EXCEPT !.pc["dep"] = "tb_lretry", !.arg["dep"] = currentAccount])
       \/ /\ UNCHANGED ledgerVars
          /\ Commit(TbFheFailed(App))
    /\ UNCHANGED <<walletVars, chainVars, countVars>>

\* depositUsdc: the retried POST /deposit returned (lines 396-409)
TbLedgerRetry ==
    /\ pc["dep"] = "tb_lretry"
    /\ \/ /\ LedgerDeposit(arg["dep"], dAmount)
          /\ Commit(TbDepositFinish(Logged(App, "ledgerOk", arg["dep"], dAmount)))
       \/ /\ UNCHANGED ledgerVars
          /\ Commit(TbFheFailed(App))
    /\ UNCHANGED <<walletVars, chainVars, countVars>>

TbDeposit ==
    \/ \E amount \in Amounts : TbDepositSubmit(amount)
    \/ TbDepositSend \/ TbDepositWait
    \/ TbLedgerDep \/ TbLedgerCreate \/ TbLedgerRetry

NextTwoButton ==
    \/ TbConnect
    \/ TbDeposit
    \/ TbApprove
    \/ \E p \in Procs : TbRefresh(p)
    \/ \E a \in AccountOrNull : TbWalletAccountsChanged(a)
    \/ TbShowAccountPage
    \/ DisconnectClick
    \/ \E k \in {"approve", "deposit"} : MineTx(k)

SpecTwoButton == Init /\ [][NextTwoButton]_vars

\* ------------------------------------------------------------------ C39
\* A deposit of the two-button variant is in flight.
TbDepositInFlight == pc["dep"] # "idle"

\* C39: in the two-button variant the deposit button is disabled for the
\* whole time a deposit is in flight; no balance refresh running beside
\* the deposit enables it.
C39_DepositButtonStaysDisabled == TbDepositInFlight => btnDisabled

\* A deposit submitted under account Y waits for its transaction; the
\* wallet went back to X, and the refresh started by that account-changed
\* notification has enabled the deposit button again.
C39_Witness ==
    /\ pc["dep"] = "tb_wait" /\ tx["deposit"].state = "pending"
    /\ ~btnDisabled
    /\ dStart.acct = "Y"
    /\ nEvents = 2 /\ walletSel = "X" /\ currentAccount = "X"
    /\ pc["evt"] = "idle" /\ pc["nav"] = "idle" /\ pc["conn"] = "idle"
    /\ pc["apr"] = "idle"
    /\ listening /\ isWalletConnected /\ isUsdcApproved

\* ------------------------------------------------------------------ C40
\* The deposit transactions the current submission sent to the chain, each
\* with the active account and its allowance at that moment.
TbDepositsSent == { i \in DOMAIN dLog : dLog[i].ev = "depositTx" }

\* C40: in the two-button variant a deposit transaction is submitted only
\* when the allowance of the active account for the vault is at least the
\* threshold of one USDC, also right after an account-changed notification
\* and right after an approval completed.
C40_DepositOnlyWithAllowanceOfActiveAccount ==
    \A i \in TbDepositsSent : dLog[i].n >= minAllowance

\* Account X was approved; after the wallet moved to Y, which has no
\* allowance, a deposit was requested and submitted on the flag cached
\* for X.
C40_Witness ==
    /\ pc["dep"] = "tb_wait" /\ tx["deposit"].state = "pending"
    /\ tx["deposit"].from = "X"
    /\ currentAccount = "Y" /\ allowance["Y"] = 0
    /\ dStart.acct = "Y" /\ dStart.allow = 0
    /\ \E i \in TbDepositsSent : dLog[i].acct = "Y" /\ dLog[i].n = 0
    /\ \E i \in DOMAIN dLog : dLog[i] = Ev("depositReq", "Y", 0)

====
